---- MODULE Spec2Model ----
(***************************************************************************)
(* Model of the Gluten Free bot search and listing engine                  *)
(* (src/bot_glutenfree.py): the restaurants store, the per-user filter     *)
(* settings, the city query, the pager build_list_message and the          *)
(* 'listpage:' navigation handled by callback_handler.                     *)
(*                                                                         *)
(* Conventions                                                             *)
(*  - a text value is a sequence of one-character strings;                 *)
(*  - an optional value (SQL NULL / Python None) is the empty tuple None,  *)
(*    a present value v is the one-element tuple Some(v);                  *)
(*  - a rating is kept in tenths (42 is 4.2), which preserves >= and <;    *)
(*  - a Python list / SQL result set is a sequence.                        *)
(***************************************************************************)
EXTENDS Integers, Sequences, FiniteSets, TLC

VARIABLES
    restaurants,    \* table restaurants: a set of rows with unique id
    user_settings,  \* table user_settings: a set of rows with unique user_id
    user_data,      \* context.user_data, one dict per user
    messages,       \* list messages sent in the chat, in sending order
    store_changes,  \* number of external writes to restaurants so far
    call,           \* the last direct application of an engine function
    pending_photo_for_user, \* the module's dict user id -> place awaiting a photo
    photos          \* table photos, in insertion order

vars ==
    <<restaurants, user_settings, user_data, messages, store_changes, call,
      pending_photo_for_user, photos>>

-----------------------------------------------------------------------------
(* Optional values *)

None == <<>>

Some(v) == <<v>>

IsNone(x) == x = <<>>

Val(x) == x[1]

-----------------------------------------------------------------------------
(* Bounds *)

MaxItems == 12       \* longest list handed directly to build_list_message

MaxPageReq == 4      \* largest ordinary page index requested (and 999)

MaxRows == 3         \* rows of a store drawn for the direct query checks

MaxMsgs == 2         \* list messages kept in the chat

MaxStoreChanges == 1 \* external writes to the store in one behaviour

MaxPhotos == 2       \* photo messages handled in one behaviour

-----------------------------------------------------------------------------
(* Text *)

Alphabet == {" ", "|", "A", "B", "R", "a", "b", "r"}

\* byte value of a character (ASCII), the order of SQLite's BINARY collation
Code(c) ==
    CASE c = " " -> 32
      [] c = "A" -> 65
      [] c = "B" -> 66
      [] c = "R" -> 82
      [] c = "a" -> 97
      [] c = "b" -> 98
      [] c = "r" -> 114
      [] c = "|" -> 124

LowerChar(c) ==
    CASE c = "A" -> "a"
      [] c = "B" -> "b"
      [] c = "R" -> "r"
      [] c = "N" -> "n"
      [] c = "K" -> "k"
      [] c = "M" -> "m"
      [] OTHER -> c

\* str.lower() / SQL LOWER()
Lower(s) == [i \in 1..Len(s) |-> LowerChar(s[i])]

RECURSIVE LStrip(_)
LStrip(s) == IF s # <<>> /\ Head(s) = " " THEN LStrip(Tail(s)) ELSE s

RECURSIVE RStrip(_)
RStrip(s) ==
    IF s # <<>> /\ s[Len(s)] = " " THEN RStrip(SubSeq(s, 1, Len(s) - 1)) ELSE s

\* str.strip()
Strip(s) == RStrip(LStrip(s))

\* str.split(sep): the sequence of fields, [""] for the empty text
RECURSIVE Split(_, _)
Split(s, sep) ==
    IF \E i \in 1..Len(s) : s[i] = sep
    THEN LET i == CHOOSE k \in 1..Len(s) :
                     s[k] = sep /\ \A j \in 1..(k - 1) : s[j] # sep
         IN  <<SubSeq(s, 1, i - 1)>> \o Split(SubSeq(s, i + 1, Len(s)), sep)
    ELSE <<s>>

\* a < b in SQLite's BINARY collation: bytewise, a proper prefix sorts first
RECURSIVE StrLess(_, _)
StrLess(a, b) ==
    IF b = <<>> THEN FALSE
    ELSE IF a = <<>> THEN TRUE
    ELSE IF Code(Head(a)) # Code(Head(b)) THEN Code(Head(a)) < Code(Head(b))
    ELSE StrLess(Tail(a), Tail(b))

\* Python truthiness of an optional text: neither None nor ""
Truthy(x) == ~IsNone(x) /\ Val(x) # <<>>

Range(f) == {f[i] : i \in DOMAIN f}

-----------------------------------------------------------------------------
(* Pager *)

PAGE_SIZE == 5

Max(a, b) == IF a >= b THEN a ELSE b

Min(a, b) == IF a <= b THEN a ELSE b

\* rows[start:end + 1]: a window one row too long
SliceOneMore(rows, start, end) == SubSeq(rows, start + 1, Min(end + 1, Len(rows)))

\* rows[start:end] with 0 <= start <= end
Slice(rows, start, end) == SubSeq(rows, start + 1, Min(end, Len(rows)))

\* mutant: the floor of one page dropped
TotalPagesNoFloor(total) == (total + PAGE_SIZE - 1) \div PAGE_SIZE

TotalPages(total) == Max(1, (total + PAGE_SIZE - 1) \div PAGE_SIZE)

\* mutant: the upper limit off by one
ClampPageOffByOne(page, total_pages) == Max(0, Min(page, total_pages))

ClampPage(page, total_pages) == Max(0, Min(page, total_pages - 1))

\* mutant: a 'next' button also on the last page
NavButtonsNextOnLast(page, total_pages) ==
    (IF page > 0 THEN <<page - 1>> ELSE <<>>)
    \o (IF page < total_pages THEN <<page + 1>> ELSE <<>>)

\* the callback data of the navigation row: 'listpage:<n>' for each n
NavButtons(page, total_pages) ==
    (IF page > 0 THEN <<page - 1>> ELSE <<>>)
    \o (IF page < total_pages - 1 THEN <<page + 1>> ELSE <<>>)

\* the message text and keyboard: header (title, page+1, total_pages), one
\* line and one 'details:<id>' button per row of the page, navigation row
build_list_message(rows, title, page) ==
    LET total == Len(rows)
        total_pages == TotalPages(total)
        p == ClampPage(page, total_pages)
        start == p * PAGE_SIZE
        subset == Slice(rows, start, start + PAGE_SIZE)
    IN  [title |-> title,
         page |-> p,
         shown_page |-> p + 1,
         total_pages |-> total_pages,
         lines |-> [idx \in 1..Len(subset) |->
                       [display_n |-> start + idx,
                        id |-> subset[idx].id,
                        name |-> subset[idx].name,
                        rating |-> subset[idx].rating]],
         nav |-> NavButtons(p, total_pages)]

-----------------------------------------------------------------------------
(* Filter settings *)

\* SELECT min_rating, type_filter FROM user_settings WHERE user_id = ?
get_user_settings(user_id) ==
    IF \E row \in user_settings : row.user_id = user_id
    THEN LET row == CHOOSE x \in user_settings : x.user_id = user_id
         IN  [min_rating |-> row.min_rating, type_filter |-> row.type_filter]
    ELSE [min_rating |-> None, type_filter |-> None]

\* the user's row replaced as a whole, as INSERT OR REPLACE would do
SetMinRatingReplacingRow(user_id, value) ==
    {row \in user_settings : row.user_id # user_id}
        \cup {[user_id |-> user_id, min_rating |-> value, type_filter |-> None]}

\* INSERT ... ON CONFLICT(user_id) DO UPDATE SET min_rating = excluded.min_rating
\* (and UPDATE ... SET min_rating = NULL when value is None)
set_user_min_rating(user_id, value) ==
    IF \E row \in user_settings : row.user_id = user_id
    THEN {IF row.user_id = user_id THEN [row EXCEPT !.min_rating = value] ELSE row
            : row \in user_settings}
    ELSE user_settings
            \cup {[user_id |-> user_id, min_rating |-> value, type_filter |-> None]}

\* value None: UPDATE ... SET type_filter = NULL WHERE user_id = ? (no row is
\* made); otherwise INSERT ... ON CONFLICT(user_id) DO UPDATE SET type_filter
set_user_type_filter(user_id, value) ==
    IF IsNone(value) \/ \E row \in user_settings : row.user_id = user_id
    THEN {IF row.user_id = user_id THEN [row EXCEPT !.type_filter = value] ELSE row
            : row \in user_settings}
    ELSE user_settings
            \cup {[user_id |-> user_id, min_rating |-> None, type_filter |-> value]}

\* the parts of the title built by format_active_filters
format_active_filters(settings) ==
    [rating |-> settings.min_rating,
     tipo |-> IF Truthy(settings.type_filter) THEN settings.type_filter ELSE None]

-----------------------------------------------------------------------------
(* Query *)

\* s occurs in t as a substring
Contains(t, s) ==
    \E k \in 0..(Len(t) - Len(s)) : SubSeq(t, k + 1, k + Len(s)) = s

\* mutant: substring match (LIKE '%city%') in place of equality
CityMatchesSubstring(r, city) == Contains(Lower(r.city), Lower(city))

\* LOWER(city) = LOWER(?)
CityMatches(r, city) == Lower(r.city) = Lower(city)

\* mutant: rating ASC in place of rating DESC
CityBeforeRatingAsc(a, b) ==
    IF IsNone(a.rating) # IsNone(b.rating) THEN IsNone(b.rating)
    ELSE IF ~IsNone(a.rating) /\ Val(a.rating) # Val(b.rating)
         THEN Val(a.rating) < Val(b.rating)
    ELSE IF a.name # b.name THEN StrLess(a.name, b.name)
    ELSE a.id < b.id

\* ORDER BY (rating IS NULL) ASC, rating DESC, name ASC; rows equal on the
\* whole key leave the sorter in scan (rowid) order
CityBefore(a, b) ==
    IF IsNone(a.rating) # IsNone(b.rating) THEN IsNone(b.rating)
    ELSE IF ~IsNone(a.rating) /\ Val(a.rating) # Val(b.rating)
         THEN Val(a.rating) > Val(b.rating)
    ELSE IF a.name # b.name THEN StrLess(a.name, b.name)
    ELSE a.id < b.id

\* the rows of a set in ORDER BY order
RECURSIVE OrderCity(_)
OrderCity(S) ==
    IF S = {} THEN <<>>
    ELSE LET first == CHOOSE r \in S : \A o \in S \ {r} : CityBefore(r, o)
         IN  <<first>> \o OrderCity(S \ {first})

\* the rows of a set in rowid order, the order of a scan without ORDER BY
RECURSIVE OrderById(_)
OrderById(S) ==
    IF S = {} THEN <<>>
    ELSE LET first == CHOOSE r \in S : \A o \in S : r.id <= o.id
         IN  <<first>> \o OrderById(S \ {first})

\* SELECT * FROM restaurants WHERE LOWER(city) = LOWER(?) ORDER BY ...
SelectCity(city) == OrderCity({r \in restaurants : CityMatches(r, city)})

\* mutant: > in place of >=
CityRatingKeepsStrict(r, min_rating) ==
    IsNone(r.rating) \/ Val(r.rating) > Val(min_rating)

\* query_by_city: r["rating"] is None or float(r["rating"]) >= float(min_rating)
CityRatingKeeps(r, min_rating) ==
    IsNone(r.rating) \/ Val(r.rating) >= Val(min_rating)

\* the rating guard skipping every unrated row as well
NearbyRatingSkipsUnrated(r, min_rating) ==
    ~IsNone(min_rating) /\ (IsNone(r.rating) \/ Val(r.rating) < Val(min_rating))

\* query_nearby: the row is skipped when
\* min_rating is not None and r["rating"] is not None and rating < min_rating
NearbyRatingSkips(r, min_rating) ==
    ~IsNone(min_rating) /\ ~IsNone(r.rating) /\ Val(r.rating) < Val(min_rating)

\* {t.strip().lower() for t in str(r["types"]).split("|")}
TypeTokens(types) == {Lower(Strip(t)) : t \in Range(Split(types, "|"))}

\* mutant: the row's tokens compared without lower()
TypeMatchesCaseSensitive(r, type_filter) ==
    /\ Truthy(r.types)
    /\ Lower(Strip(Val(type_filter)))
           \in {Strip(t) : t \in Range(Split(Val(r.types), "|"))}

\* r["types"] and tf in {...}, with tf = str(type_filter).strip().lower()
TypeMatches(r, type_filter) ==
    Truthy(r.types) /\ Lower(Strip(Val(type_filter))) \in TypeTokens(Val(r.types))

KeepRating(rows, min_rating) ==
    IF ~IsNone(min_rating)
    THEN SelectSeq(rows, LAMBDA r : CityRatingKeeps(r, min_rating))
    ELSE rows

KeepType(rows, type_filter) ==
    IF Truthy(type_filter)
    THEN SelectSeq(rows, LAMBDA r : TypeMatches(r, type_filter))
    ELSE rows

query_by_city(city, user_id) ==
    LET settings == get_user_settings(user_id)
    IN  KeepType(KeepRating(SelectCity(city), settings.min_rating),
                 settings.type_filter)

\* the table scanned in rowid order by the first evaluation of a behaviour
\* and in the opposite order by the later ones
SelectAllTurning ==
    IF call.fn = "none" THEN OrderById(restaurants)
    ELSE [i \in 1..Cardinality(restaurants) |->
              OrderById(restaurants)[Cardinality(restaurants) + 1 - i]]

\* SELECT * FROM restaurants: the whole table in rowid order
SelectAll == OrderById(restaurants)

\* query_nearby, the two filter guards at the head of its loop: the rows that
\* reach the coordinate and distance tests, in scan order
NearbyCandidates(user_id) ==
    LET settings == get_user_settings(user_id)
        passes(r) ==
            /\ ~NearbyRatingSkips(r, settings.min_rating)
            /\ (Truthy(settings.type_filter) => TypeMatches(r, settings.type_filter))
    IN  SelectSeq(SelectAll, passes)

-----------------------------------------------------------------------------
(* Values the checks draw from *)

Users == {1}

Ba == <<"B", "a">>

BA == <<"B", "A">>

ba == <<"b", "a">>

bA == <<"b", "A">>

Bar == <<"B", "a", "r">>

bar == <<"b", "a", "r">>

Ra == <<"R", "a">>

Rb == <<"R", "b">>

\* context.user_data of a user before the first message: every .get() of the
\* handlers finds nothing
EmptyUserData ==
    [awaiting_city |-> FALSE,
     awaiting_radius |-> FALSE,
     nearby_radius_km |-> None,
     last_nearby_coords |-> None,
     last_city_search |-> None,
     last_list_rows_ids |-> None,
     last_list_title |-> None,
     last_list_type |-> None]

NoCall == [fn |-> "none"]

\* the users who press 'photo:' buttons and send photos
PhotoUsers == {1, 2}

\* pending_photo_for_user = {}: no user has an entry
NoPending == [u \in PhotoUsers |-> None]

-----------------------------------------------------------------------------
(* Direct application of build_list_message *)

PageInputs == (-2..MaxPageReq) \cup {999}

\* a result list of n rows
PageRows(n) ==
    [i \in 1..n |->
        [id |-> i, name |-> <<"A">>, city |-> Ba,
         rating |-> IF i % 3 = 0 THEN None ELSE Some(50 - i),
         types |-> None]]

InitPage ==
    /\ restaurants = {}
    /\ user_settings = {}
    /\ user_data = [u \in Users |-> EmptyUserData]
    /\ messages = <<>>
    /\ store_changes = 0
    /\ call = NoCall
    /\ pending_photo_for_user = NoPending
    /\ photos = <<>>

BuildListMessage ==
    \E n \in 0..MaxItems, page \in PageInputs :
        /\ call' = [fn |-> "build_list_message",
                    rows |-> PageRows(n),
                    page |-> page,
                    out |-> build_list_message(PageRows(n), "Risultati", page)]
        /\ UNCHANGED <<restaurants, user_settings, user_data, messages, store_changes,
                       pending_photo_for_user, photos>>

NextPage == BuildListMessage

SpecPage == InitPage /\ [][NextPage]_vars

-----------------------------------------------------------------------------
(* Direct application of the queries *)

\* rows a store may hold: city, name, rating, types
RowPool ==
    << [city |-> Ba,  name |-> <<"B">>,      rating |-> Some(45), types |-> Some(bar)],
       [city |-> BA,  name |-> <<"A">>,      rating |-> Some(45),
        types |-> Some(<<" ", "B", "a", "r", " ", "|", "a">>)],
       [city |-> Ba,  name |-> <<"a">>,      rating |-> None,
        types |-> Some(<<"a", "|", "b", "a", "r">>)],
       [city |-> ba,  name |-> <<"A", "b">>, rating |-> Some(42), types |-> Some(<<>>)],
       [city |-> Bar, name |-> <<"A">>,      rating |-> Some(48), types |-> Some(bar)],
       [city |-> Ba,  name |-> <<"B">>,      rating |-> Some(45), types |-> Some(ba)],
       [city |-> <<"a">>, name |-> <<"A">>,  rating |-> Some(40), types |-> None],
       [city |-> Ba,  name |-> <<"A">>,      rating |-> None,     types |-> None] >>

\* the table holding the pool rows picks[1], picks[2], ... under ids 1, 2, ...
StoreOf(picks) ==
    {[id |-> i,
      name |-> RowPool[picks[i]].name,
      city |-> RowPool[picks[i]].city,
      rating |-> RowPool[picks[i]].rating,
      types |-> RowPool[picks[i]].types] : i \in DOMAIN picks}

Picks ==
    {p \in UNION {[1..n -> DOMAIN RowPool] : n \in 0..MaxRows} :
        \A i, j \in DOMAIN p : i # j => p[i] # p[j]}

\* thresholds offered by the filters menu ('filt:4.0', 'filt:4.5')
MinRatings == {40, 45}

\* category values a 'type:<val>' callback may store
TypeFilters == {<<>>, bar, <<" ", "B", "a", "r">>}

QueryCities == {bA, <<"a">>, Bar}

InitQuery ==
    /\ \E p \in Picks : restaurants = StoreOf(p)
    /\ \/ user_settings = {}
       \/ \E mr \in {None} \cup {Some(v) : v \in MinRatings},
             tf \in {None} \cup {Some(t) : t \in TypeFilters} :
             user_settings = {[user_id |-> 1, min_rating |-> mr, type_filter |-> tf]}
    /\ user_data = [u \in Users |-> EmptyUserData]
    /\ messages = <<>>
    /\ store_changes = 0
    /\ call = NoCall
    /\ pending_photo_for_user = NoPending
    /\ photos = <<>>

QueryByCity ==
    \E city \in QueryCities, u \in Users :
        /\ call' = [fn |-> "query_by_city",
                    city |-> city,
                    user_id |-> u,
                    selected |-> SelectCity(city),
                    rows |-> query_by_city(city, u)]
        /\ UNCHANGED <<restaurants, user_settings, user_data, messages, store_changes,
                       pending_photo_for_user, photos>>

QueryNearbyFilters ==
    \E u \in Users :
        /\ call' = [fn |-> "query_nearby",
                    user_id |-> u,
                    candidates |-> NearbyCandidates(u)]
        /\ UNCHANGED <<restaurants, user_settings, user_data, messages, store_changes,
                       pending_photo_for_user, photos>>

NextQuery == QueryByCity \/ QueryNearbyFilters

SpecQuery == InitQuery /\ [][NextQuery]_vars

-----------------------------------------------------------------------------
(* The bot: searches, navigation, filter callbacks, external store writes *)

\* the store the bot starts with: six places in one city, one in another
InitStore ==
    {[id |-> 1, name |-> <<"A">>,      city |-> Ba, rating |-> Some(48), types |-> Some(bar)],
     [id |-> 2, name |-> <<"B">>,      city |-> Ba, rating |-> Some(45), types |-> None],
     [id |-> 3, name |-> <<"a">>,      city |-> BA, rating |-> Some(45), types |-> Some(bar)],
     [id |-> 4, name |-> <<"A", "b">>, city |-> Ba, rating |-> Some(42), types |-> None],
     [id |-> 5, name |-> <<"R">>,      city |-> ba, rating |-> Some(40), types |-> None],
     [id |-> 6, name |-> <<"b">>,      city |-> Ba, rating |-> None,     types |-> None],
     [id |-> 7, name |-> <<"A">>,      city |-> Ra, rating |-> Some(45), types |-> Some(bar)]}

\* city names a user types: two with places, one without
SearchCities == {bA, Ra, Rb}

\* what an external writer may do: store one of these ratings for a place of
\* the first page, delete the place of the second page
WrittenRatings == {Some(49)}

UpdatedIds == {2}

DeletedIds == {6}

\* thresholds the user picks in the filters menu during a session
PickedRatings == {None, Some(45)}

Init ==
    /\ restaurants = InitStore
    /\ user_settings = {}
    /\ user_data = [u \in Users |-> EmptyUserData]
    /\ messages = <<>>
    /\ store_changes = 0
    /\ call = NoCall
    /\ pending_photo_for_user = NoPending
    /\ photos = <<>>

Ids(rows) == [i \in 1..Len(rows) |-> rows[i].id]

\* history: what each shown page held is forgotten at a new search and at a
\* store write, the two events that end a round trip
ForgetSeen(msgs) ==
    [k \in 1..Len(msgs) |-> [msgs[k] EXCEPT !.seen = <<>>, !.returned = FALSE]]

\* a list message: the rendering out, plus the history kept for the checks
\* (the search it was sent for, the pages it has shown since the last new
\* search or store write)
SentMessage(u, out, rows) ==
    [user |-> u,
     title |-> out.title,
     page |-> out.page,
     total_pages |-> out.total_pages,
     lines |-> out.lines,
     nav |-> out.nav,
     for_title |-> out.title,
     for_ids |-> Ids(rows),
     seen |-> [q \in {out.page} |-> Ids(out.lines)],
     returned |-> FALSE]

\* query.edit_message_text: the message shows the new rendering
EditedMessage(m, out) ==
    [m EXCEPT
        !.title = out.title,
        !.page = out.page,
        !.total_pages = out.total_pages,
        !.lines = out.lines,
        !.nav = out.nav,
        !.seen = IF out.page \in DOMAIN m.seen
                 THEN m.seen
                 ELSE [q \in DOMAIN m.seen \cup {out.page} |->
                          IF q = out.page THEN Ids(out.lines) ELSE m.seen[q]],
        !.returned = (out.page \in DOMAIN m.seen /\ out.page # m.page)]

\* handle_text, text == "🔍 Cerca per città"
TextCercaCitta(u) ==
    /\ user_data' = [user_data EXCEPT ![u].awaiting_city = TRUE]
    /\ UNCHANGED <<restaurants, user_settings, messages, store_changes, call,
                   pending_photo_for_user, photos>>

\* the title of a city list: number found, city, active filters
CityTitle(rows, city, u) ==
    [kind |-> "city",
     found |-> Len(rows),
     city |-> city,
     filtri |-> format_active_filters(get_user_settings(u))]

\* handle_text while awaiting_city: the text is the city searched
TextCity(u, city) ==
    /\ user_data[u].awaiting_city
    /\ LET rows == query_by_city(city, u)
           ud == [user_data[u] EXCEPT
                     !.awaiting_city = FALSE,
                     !.last_city_search = Some(city)]
       IN  IF rows = <<>>
           THEN /\ user_data' = [user_data EXCEPT ![u] = ud]
                /\ messages' = ForgetSeen(messages)
           ELSE /\ Len(messages) < MaxMsgs
                /\ LET title == CityTitle(rows, city, u)
                       out == build_list_message(rows, title, 0)
                   IN  /\ user_data' =
                              [user_data EXCEPT ![u] =
                                  [ud EXCEPT
                                      !.last_list_rows_ids = Some(Ids(rows)),
                                      !.last_list_title = Some(title),
                                      !.last_list_type = Some("city")]]
                       /\ messages' =
                              Append(ForgetSeen(messages), SentMessage(u, out, rows))
    /\ UNCHANGED <<restaurants, user_settings, store_changes, call,
                   pending_photo_for_user, photos>>

RowById(i) == CHOOSE r \in restaurants : r.id = i

\* mutant: the search is run again with the settings of the moment
ListpageRowsRequeried(u) ==
    query_by_city(Val(user_data[u].last_city_search), u)

\* callback_handler, 'listpage:': the rows of last_list_rows_ids still in the
\* store, in the stored order
ListpageRows(u) ==
    LET ids == IF IsNone(user_data[u].last_list_rows_ids)
               THEN <<>>
               ELSE Val(user_data[u].last_list_rows_ids)
        present == SelectSeq(ids, LAMBDA i : \E r \in restaurants : r.id = i)
    IN  [k \in 1..Len(present) |-> RowById(present[k])]

\* callback_handler, data 'listpage:<page>' pressed on the k-th list message
CallbackListpage(u, k, page) ==
    /\ k \in 1..Len(messages)
    /\ messages[k].user = u
    /\ page \in Range(messages[k].nav)
    /\ IF ~IsNone(user_data[u].last_list_rows_ids)
          /\ Val(user_data[u].last_list_rows_ids) # <<>>
       THEN LET title == IF IsNone(user_data[u].last_list_title)
                         THEN "Risultati"
                         ELSE Val(user_data[u].last_list_title)
                out == build_list_message(ListpageRows(u), title, page)
            IN  messages' = [messages EXCEPT ![k] = EditedMessage(messages[k], out)]
       ELSE UNCHANGED messages
    /\ UNCHANGED <<restaurants, user_settings, user_data, store_changes, call,
                   pending_photo_for_user, photos>>

\* callback_handler, data 'filt:none' (value None) or 'filt:<rating>'
CallbackFilt(u, value) ==
    /\ user_settings' = set_user_min_rating(u, value)
    /\ UNCHANGED <<restaurants, user_data, messages, store_changes, call,
                   pending_photo_for_user, photos>>

\* an external writer updates the rating of a place
StoreUpdateRating(id, rating) ==
    /\ store_changes < MaxStoreChanges
    /\ \E r \in restaurants :
          /\ r.id = id
          /\ r.rating # rating
          /\ restaurants' = (restaurants \ {r}) \cup {[r EXCEPT !.rating = rating]}
    /\ store_changes' = store_changes + 1
    /\ messages' = ForgetSeen(messages)
    /\ UNCHANGED <<user_settings, user_data, call,
                   pending_photo_for_user, photos>>

\* an external writer deletes a place
StoreDeleteRow(id) ==
    /\ store_changes < MaxStoreChanges
    /\ \E r \in restaurants :
          /\ r.id = id
          /\ restaurants' = restaurants \ {r}
    /\ store_changes' = store_changes + 1
    /\ messages' = ForgetSeen(messages)
    /\ UNCHANGED <<user_settings, user_data, call,
                   pending_photo_for_user, photos>>

PageTargets == 0..MaxPageReq

Next ==
    \/ \E u \in Users : TextCercaCitta(u)
    \/ \E u \in Users, city \in SearchCities : TextCity(u, city)
    \/ \E u \in Users, k \in 1..MaxMsgs, page \in PageTargets :
           CallbackListpage(u, k, page)
    \/ \E u \in Users, value \in PickedRatings : CallbackFilt(u, value)
    \/ \E id \in UpdatedIds, rating \in WrittenRatings : StoreUpdateRating(id, rating)
    \/ \E id \in DeletedIds : StoreDeleteRow(id)

Spec == Init /\ [][Next]_vars

-----------------------------------------------------------------------------
(* Properties of build_list_message, under SpecPage *)

IsBuild == call.fn = "build_list_message"

\* C1: for every result list, the empty one included, and every requested
\* page index, negative or arbitrarily large, build_list_message resolves
\* the page to the nearest index in [0, total_pages - 1]
C1_PageClamped ==
    IsBuild =>
        LET last == call.out.total_pages - 1
        IN  /\ call.out.page \in 0..last
            /\ call.page < 0 => call.out.page = 0
            /\ call.page > last => call.out.page = last
            /\ call.page \in 0..last => call.out.page = call.page

\* page 999 of a 3-item list resolved to page 0
C1_Witness ==
    IsBuild /\ Len(call.rows) = 3 /\ call.page = 999 /\ call.out.page = 0

\* C2: total_pages is ceil(total_items / PAGE_SIZE) with a floor of 1; the
\* empty list gives one empty page shown as page 1/1
C2_TotalPages ==
    IsBuild =>
        LET total == Len(call.rows)
            tp == call.out.total_pages
        IN  /\ tp >= 1
            /\ tp * PAGE_SIZE >= total
            /\ tp > 1 => (tp - 1) * PAGE_SIZE < total
            /\ total = 0 =>
                  /\ tp = 1
                  /\ call.out.lines = <<>>
                  /\ call.out.shown_page = 1

\* the empty list paged
C2_Witness ==
    IsBuild /\ call.rows = <<>> /\ call.out.total_pages = 1 /\ call.out.lines = <<>>

\* C3: a 'previous' button listpage:<resolved-1> is emitted iff the resolved
\* page is > 0, a 'next' button listpage:<resolved+1> iff it is
\* < total_pages - 1, and no other navigation button
C3_NavButtons ==
    IsBuild =>
        LET p == call.out.page
            targets == Range(call.out.nav)
        IN  /\ (p - 1) \in targets <=> p > 0
            /\ (p + 1) \in targets <=> p < call.out.total_pages - 1
            /\ targets \subseteq {p - 1, p + 1}

\* a last page after at least one other: previous button only
C3_Witness ==
    /\ IsBuild
    /\ call.out.page > 0
    /\ call.out.page = call.out.total_pages - 1
    /\ call.out.nav = <<call.out.page - 1>>

-----------------------------------------------------------------------------
(* Properties of the queries, under SpecQuery *)

IsCityQuery == call.fn = "query_by_city"

IsNearbyQuery == call.fn = "query_nearby"

\* case-insensitive equality of two texts, character by character
SameTextIgnoringCase(s, t) ==
    Len(s) = Len(t) /\ \A i \in 1..Len(s) : LowerChar(s[i]) = LowerChar(t[i])

\* the rating rule of the contract
RatingRule(r, min_rating) ==
    IsNone(min_rating) \/ IsNone(r.rating) \/ Val(r.rating) >= Val(min_rating)

\* the category rule of the contract; a filter is set when it holds a token
CategoryRule(r, type_filter) ==
    (~IsNone(type_filter) /\ Val(type_filter) # <<>>) =>
        /\ ~IsNone(r.types)
        /\ \E t \in Range(Split(Val(r.types), "|")) :
               SameTextIgnoringCase(Strip(t), Strip(Val(type_filter)))

Settings(u) == get_user_settings(u)

\* C7: the list returned by query_by_city has rated places before unrated
\* ones, ratings descending, equal ratings by name ascending (bytewise), and
\* this holds with the rating and category filters applied
C7_CityOrder ==
    IsCityQuery =>
        \A i, j \in 1..Len(call.rows) :
            i < j =>
                LET a == call.rows[i]
                    b == call.rows[j]
                IN  /\ IsNone(a.rating) => IsNone(b.rating)
                    /\ (~IsNone(a.rating) /\ ~IsNone(b.rating)) =>
                           Val(a.rating) >= Val(b.rating)
                    /\ a.rating = b.rating => ~StrLess(b.name, a.name)

\* three places returned with both filters set: two of equal rating in name
\* order against their rowid order, and an unrated one last
C7_Witness ==
    /\ IsCityQuery
    /\ ~IsNone(Settings(call.user_id).min_rating)
    /\ Truthy(Settings(call.user_id).type_filter)
    /\ Len(call.rows) = 3
    /\ ~IsNone(call.rows[1].rating)
    /\ ~IsNone(call.rows[2].rating)
    /\ call.rows[1].rating = call.rows[2].rating
    /\ StrLess(call.rows[1].name, call.rows[2].name)
    /\ call.rows[1].id > call.rows[2].id
    /\ IsNone(call.rows[3].rating)

\* C8: in query_by_city and in query_nearby a place passes the rating filter
\* iff no threshold is set, or its rating is absent, or its rating >= the
\* threshold
C8_RatingFilter ==
    /\ IsCityQuery =>
          LET s == Settings(call.user_id)
          IN  Range(call.rows) =
                  {r \in Range(call.selected) :
                      RatingRule(r, s.min_rating) /\ CategoryRule(r, s.type_filter)}
    /\ IsNearbyQuery =>
          LET s == Settings(call.user_id)
          IN  Range(call.candidates) =
                  {r \in restaurants :
                      RatingRule(r, s.min_rating) /\ CategoryRule(r, s.type_filter)}

\* threshold 4.5: a place rated 4.2 dropped, places rated 4.5 and unrated kept
C8_Witness ==
    /\ IsCityQuery
    /\ Settings(call.user_id).min_rating = Some(45)
    /\ \E r \in Range(call.selected) : r.rating = Some(42) /\ r \notin Range(call.rows)
    /\ \E r \in Range(call.rows) : r.rating = Some(45)
    /\ \E r \in Range(call.rows) : IsNone(r.rating)

\* C9: in query_by_city and in query_nearby, with no category filter set
\* every place passes; with a token set a place passes iff its '|'-separated
\* categories contain the token, trimmed and compared case-insensitively
C9_CategoryFilter ==
    /\ IsCityQuery =>
          LET s == Settings(call.user_id)
          IN  \A r \in Range(call.selected) :
                  RatingRule(r, s.min_rating) =>
                      (r \in Range(call.rows) <=> CategoryRule(r, s.type_filter))
    /\ IsNearbyQuery =>
          LET s == Settings(call.user_id)
          IN  \A r \in restaurants :
                  RatingRule(r, s.min_rating) =>
                      (r \in Range(call.candidates) <=> CategoryRule(r, s.type_filter))

\* token set: a place listing ' Bar |a' kept, a place listing 'ba' and a
\* place with no categories dropped
C9_Witness ==
    /\ IsNearbyQuery
    /\ Truthy(Settings(call.user_id).type_filter)
    /\ \E r \in Range(call.candidates) : r.types = RowPool[2].types
    /\ \E r \in restaurants : r.types = Some(ba) /\ r \notin Range(call.candidates)
    /\ \E r \in restaurants : IsNone(r.types) /\ r \notin Range(call.candidates)

-----------------------------------------------------------------------------
(* Properties of navigation, under Spec *)

\* C4: a list message always shows a page of the search it was sent for:
\* after search A, search B and a listpage button pressed on A's message,
\* that message carries A's title and items of A's result list
C4_NavSameQuery ==
    \A k \in 1..Len(messages) :
        /\ messages[k].title = messages[k].for_title
        /\ Range(Ids(messages[k].lines)) \subseteq Range(messages[k].for_ids)

\* C5: with the store unchanged and no new search in between, a page shown
\* again through listpage buttons holds the same restaurant ids in the same
\* order as when it was first shown
C5_RoundTrip ==
    \A k \in 1..Len(messages) :
        messages[k].page \in DOMAIN messages[k].seen =>
            Ids(messages[k].lines) = messages[k].seen[messages[k].page]

\* a message brought back, from another page, to a page it had shown, the
\* user's threshold having changed since the search
C5_Witness ==
    \E k \in 1..Len(messages) :
        /\ messages[k].returned
        /\ Cardinality(DOMAIN messages[k].seen) >= 2
        /\ messages[k].lines # <<>>
        /\ messages[k].title.filtri.rating
               # get_user_settings(messages[k].user).min_rating

\* C6: when the store changed after the search, the list shown again by the
\* listpage handler still obeys the city ordering over what it shows: rated
\* before unrated, rating descending, name ascending
C6_ReorderedAfterChange ==
    \A k \in 1..Len(messages) :
        messages[k].title.kind = "city" =>
            \A i, j \in 1..Len(messages[k].lines) :
                i < j =>
                    LET a == messages[k].lines[i]
                        b == messages[k].lines[j]
                    IN  /\ IsNone(a.rating) => IsNone(b.rating)
                        /\ (~IsNone(a.rating) /\ ~IsNone(b.rating)) =>
                               Val(a.rating) >= Val(b.rating)
                        /\ a.rating = b.rating => ~StrLess(b.name, a.name)

-----------------------------------------------------------------------------
(* Floating-point values                                                   *)
(*                                                                         *)
(* A Python float is a record: cls "fin" with v the value in the unit of   *)
(* its quantity (tenths of a degree for a coordinate: 419 is 41.9; metres  *)
(* for a distance or a radius), cls "inf" with v the sign, or cls "nan".   *)
(* Every comparison with a NaN is false, as in IEEE 754.                   *)

Fin(n) == [cls |-> "fin", v |-> n]

NaN == [cls |-> "nan", v |-> 0]

Inf(sign) == [cls |-> "inf", v |-> sign]

\* a > b on floats
FloatGt(a, b) ==
    /\ a.cls # "nan"
    /\ b.cls # "nan"
    /\ CASE a.cls = "inf" /\ b.cls = "inf" -> a.v > b.v
         [] a.cls = "inf" -> a.v = 1
         [] b.cls = "inf" -> b.v = -1
         [] OTHER -> a.v > b.v

\* a <= b on floats
FloatLe(a, b) == a.cls # "nan" /\ b.cls # "nan" /\ ~FloatGt(a, b)

\* abs(f)
FloatAbs(f) ==
    CASE f.cls = "fin" -> Fin(IF f.v < 0 THEN -f.v ELSE f.v)
      [] f.cls = "inf" -> Inf(1)
      [] OTHER -> f

\* -f
FloatNeg(f) == IF f.cls = "nan" THEN f ELSE [f EXCEPT !.v = -f.v]

-----------------------------------------------------------------------------
(* Raw coordinate values and _to_float                                     *)
(*                                                                         *)
(* A raw value is what a caller or a column of restaurants can hold: None, *)
(* a text or a number.  All three fields are always present; kind tells    *)
(* which one is meant.                                                     *)

RawNone == [kind |-> "none", text |-> <<>>, num |-> Fin(0)]

RawText(s) == [kind |-> "text", text |-> s, num |-> Fin(0)]

RawNum(f) == [kind |-> "num", text |-> <<>>, num |-> f]

Digits == {"0", "1", "2", "3", "4", "5", "6", "7", "8", "9"}

DigitVal(c) ==
    CASE c = "0" -> 0 [] c = "1" -> 1 [] c = "2" -> 2 [] c = "3" -> 3
      [] c = "4" -> 4 [] c = "5" -> 5 [] c = "6" -> 6 [] c = "7" -> 7
      [] c = "8" -> 8 [] c = "9" -> 9

AllDigits(s) == \A i \in 1..Len(s) : s[i] \in Digits

\* value of a digit string, 0 for the empty one
RECURSIVE DecVal(_)
DecVal(ds) ==
    IF ds = <<>> THEN 0
    ELSE 10 * DecVal(SubSeq(ds, 1, Len(ds) - 1)) + DigitVal(ds[Len(ds)])

\* str.replace(a, b) for one-character a and b
Replace(s, a, b) == [i \in 1..Len(s) |-> IF s[i] = a THEN b ELSE s[i]]

\* float(s) for an unsigned literal: digits with at most one "." and at
\* least one digit, or nan / inf / infinity in any letter case; None stands
\* for ValueError.  Values are kept in tenths, so a literal of the model has
\* at most one fractional digit.
\* parts is s split at "."
ParseParts(s, parts) ==
    IF Len(parts) = 1 /\ parts[1] # <<>> /\ AllDigits(parts[1])
    THEN Some(Fin(10 * DecVal(parts[1])))
    ELSE IF /\ Len(parts) = 2
            /\ AllDigits(parts[1])
            /\ AllDigits(parts[2])
            /\ (parts[1] # <<>> \/ parts[2] # <<>>)
            /\ Len(parts[2]) <= 1
    THEN Some(Fin(10 * DecVal(parts[1]) + DecVal(parts[2])))
    ELSE IF Lower(s) = <<"n", "a", "n">>
    THEN Some(NaN)
    ELSE IF Lower(s) \in {<<"i", "n", "f">>,
                          <<"i", "n", "f", "i", "n", "i", "t", "y">>}
    THEN Some(Inf(1))
    ELSE None

ParseUnsigned(s) == ParseParts(s, Split(s, "."))

\* the parsed value r under the sign character
Signed(sign, r) ==
    IF sign = "-" /\ ~IsNone(r) THEN Some(FloatNeg(Val(r))) ELSE r

\* float(s) for a non-empty text without surrounding whitespace: an
\* optional sign, then an unsigned literal
ParseFloat(s) ==
    Signed(Head(s),
           ParseUnsigned(IF Head(s) \in {"+", "-"} THEN Tail(s) ELSE s))

\* the branch of _to_float for a str, s being v.strip()
FloatOfText(s) ==
    IF s = <<>> THEN None ELSE ParseFloat(Replace(s, ",", "."))

_to_float(v) ==
    IF v.kind = "none" THEN None
    ELSE IF v.kind = "text" THEN FloatOfText(Strip(v.text))
    ELSE Some(v.num)

-----------------------------------------------------------------------------
(* _normalize_coords                                                       *)

\* abs(lat) > 90 or abs(lon) > 180, in tenths of a degree
OutOfRange(lat, lon) ==
    FloatGt(FloatAbs(lat), Fin(900)) \/ FloatGt(FloatAbs(lon), Fin(1800))

\* range repair without the swap
RangeRepairNoSwap(lat, lon) == <<lat, lon>>

\* "fuori range -> prova swap"
RangeRepair(lat, lon) ==
    IF OutOfRange(lat, lon) THEN <<lon, lat>> ELSE <<lat, lon>>

\* the band with its upper ends left open
InItalyBandOpen(lat, lon) ==
    /\ FloatLe(Fin(60), lat) /\ FloatGt(Fin(190), lat)
    /\ FloatLe(Fin(360), lon) /\ FloatGt(Fin(470), lon)

\* (6 <= lat <= 19) and (36 <= lon <= 47), in tenths of a degree
InItalyBand(lat, lon) ==
    /\ FloatLe(Fin(60), lat) /\ FloatLe(lat, Fin(190))
    /\ FloatLe(Fin(360), lon) /\ FloatLe(lon, Fin(470))

\* the heuristic swap applied to every pair that stays in range swapped
HeuristicSwapAlways(lat, lon) ==
    IF ~OutOfRange(lon, lat) THEN <<lon, lat>> ELSE <<lat, lon>>

\* "Heuristica Italia"
HeuristicSwap(lat, lon) ==
    IF InItalyBand(lat, lon) THEN <<lon, lat>> ELSE <<lat, lon>>

\* the result (None, None)
Invalid == <<None, None>>

\* return lat, lon
Valid(q) == <<Some(q[1]), Some(q[2])>>

\* p is the pair left by range repair: "ancora fuori range => invalido",
\* then the heuristic
Checked(p) ==
    IF OutOfRange(p[1], p[2]) THEN Invalid
    ELSE Valid(HeuristicSwap(p[1], p[2]))

\* lat and lon are the results of _to_float
Normalized(lat, lon) ==
    IF IsNone(lat) \/ IsNone(lon) THEN Invalid
    ELSE Checked(RangeRepair(Val(lat), Val(lon)))

_normalize_coords(lat_raw, lon_raw) ==
    Normalized(_to_float(lat_raw), _to_float(lon_raw))

-----------------------------------------------------------------------------
(* haversine_km and query_nearby *)

\* R * 2 * atan2(sqrt(a), sqrt(1 - a)) of haversine_km for the points of the
\* model, as <<lat1, lon1, lat2, lon2, d>>: coordinates in tenths of a degree,
\* d in metres rounded down.  The values are those the function computes;
\* rounding keeps every order and equality between the distances from one
\* origin to the places a store of the model can hold, and between them and
\* the radii drawn.
HaversineTable ==
    {
      <<419, 125, 419, 125, 0>>, <<419, 125, 420, 125, 11119>>, <<419, 125, 419, 126, 8276>>,
      <<419, 125, 125, 419, 4331710>>, <<419, 125, 419, 3725, 0>>, <<419, 125, 450, 90, 445605>>,
      <<419, 125, -339, 1512, 16321528>>, <<419, 125, 0, 0, 4824990>>, <<419, 125, 0, 1800, 15190096>>,
      <<419, 125, 900, 0, 5348475>>, <<419, 125, -900, 0, 14666610>>, <<419, 125, -841, -1193, 15085488>>,
      <<419, 125, 841, 607, 4929597>>, <<420, 125, 419, 125, 11119>>, <<420, 125, 420, 125, 0>>,
      <<420, 125, 419, 126, 13857>>, <<420, 125, 125, 419, 4338914>>, <<420, 125, 419, 3725, 11119>>,
      <<420, 125, 450, 90, 436914>>, <<420, 125, -339, 1512, 16321487>>, <<420, 125, 0, 0, 4835544>>,
      <<420, 125, 0, 1800, 15179541>>, <<420, 125, 900, 0, 5337356>>, <<420, 125, -900, 0, 14677730>>,
      <<420, 125, -841, -1193, 15096541>>, <<420, 125, 841, 607, 4918545>>, <<419, 126, 419, 125, 8276>>,
      <<419, 126, 420, 125, 13857>>, <<419, 126, 419, 126, 0>>, <<419, 126, 125, 419, 4325407>>,
      <<419, 126, 419, 3725, 8276>>, <<419, 126, 450, 90, 450760>>, <<419, 126, -339, 1512, 16313251>>,
      <<419, 126, 0, 0, 4827607>>, <<419, 126, 0, 1800, 15187478>>, <<419, 126, 900, 0, 5348475>>,
      <<419, 126, -900, 0, 14666610>>, <<419, 126, -841, -1193, 15086395>>, <<419, 126, 841, 607, 4928690>>,
      <<125, 419, 419, 125, 4331710>>, <<125, 419, 420, 125, 4338914>>, <<125, 419, 419, 126, 4325407>>,
      <<125, 419, 125, 419, 0>>, <<125, 419, 419, 3725, 4331710>>, <<125, 419, 450, 90, 4769037>>,
      <<125, 419, -339, 1512, 12549913>>, <<125, 419, 0, 0, 4824990>>, <<125, 419, 0, 1800, 15190096>>,
      <<125, 419, 900, 0, 8617606>>, <<125, 419, -900, 0, 11397479>>, <<125, 419, -841, -1193, 12017614>>,
      <<125, 419, 841, 607, 7997471>>, <<419, 3725, 419, 125, 0>>, <<419, 3725, 420, 125, 11119>>,
      <<419, 3725, 419, 126, 8276>>, <<419, 3725, 125, 419, 4331710>>, <<419, 3725, 419, 3725, 0>>,
      <<419, 3725, 450, 90, 445605>>, <<419, 3725, -339, 1512, 16321528>>, <<419, 3725, 0, 0, 4824990>>,
      <<419, 3725, 0, 1800, 15190096>>, <<419, 3725, 900, 0, 5348475>>, <<419, 3725, -900, 0, 14666610>>,
      <<419, 3725, -841, -1193, 15085488>>, <<419, 3725, 841, 607, 4929597>>, <<450, 90, 419, 125, 445605>>,
      <<450, 90, 420, 125, 436914>>, <<450, 90, 419, 126, 450760>>, <<450, 90, 125, 419, 4769037>>,
      <<450, 90, 419, 3725, 445605>>, <<450, 90, 450, 90, 0>>, <<450, 90, -339, 1512, 16580009>>,
      <<450, 90, 0, 0, 5081734>>, <<450, 90, 0, 1800, 14933352>>, <<450, 90, 900, 0, 5003771>>,
      <<450, 90, -900, 0, 15011315>>, <<450, 90, -841, -1193, 15395252>>, <<450, 90, 841, 607, 4619834>>,
      <<-339, 1512, 419, 125, 16321528>>, <<-339, 1512, 420, 125, 16321487>>, <<-339, 1512, 419, 126, 16313251>>,
      <<-339, 1512, 125, 419, 12549913>>, <<-339, 1512, 419, 3725, 16321528>>, <<-339, 1512, 450, 90, 16580009>>,
      <<-339, 1512, -339, 1512, 0>>, <<-339, 1512, 0, 0, 15196376>>, <<-339, 1512, 0, 1800, 4818709>>,
      <<-339, 1512, 900, 0, 13777051>>, <<-339, 1512, -900, 0, 6238035>>, <<-339, 1512, -841, -1193, 6254983>>,
      <<-339, 1512, 841, 607, 13760103>>, <<0, 0, 419, 125, 4824990>>, <<0, 0, 420, 125, 4835544>>,
      <<0, 0, 419, 126, 4827607>>, <<0, 0, 125, 419, 4824990>>, <<0, 0, 419, 3725, 4824990>>,
      <<0, 0, 450, 90, 5081734>>, <<0, 0, -339, 1512, 15196376>>, <<0, 0, 0, 0, 0>>,
      <<0, 0, 0, 1800, 20015086>>, <<0, 0, 900, 0, 10007543>>, <<0, 0, -900, 0, 10007543>>,
      <<0, 0, -841, -1193, 10328171>>, <<0, 0, 841, 607, 9686915>>, <<0, 1800, 419, 125, 15190096>>,
      <<0, 1800, 420, 125, 15179541>>, <<0, 1800, 419, 126, 15187478>>, <<0, 1800, 125, 419, 15190096>>,
      <<0, 1800, 419, 3725, 15190096>>, <<0, 1800, 450, 90, 14933352>>, <<0, 1800, -339, 1512, 4818709>>,
      <<0, 1800, 0, 0, 20015086>>, <<0, 1800, 0, 1800, 0>>, <<0, 1800, 900, 0, 10007543>>,
      <<0, 1800, -900, 0, 10007543>>, <<0, 1800, -841, -1193, 9686915>>, <<0, 1800, 841, 607, 10328171>>,
      <<900, 0, 419, 125, 5348475>>, <<900, 0, 420, 125, 5337356>>, <<900, 0, 419, 126, 5348475>>,
      <<900, 0, 125, 419, 8617606>>, <<900, 0, 419, 3725, 5348475>>, <<900, 0, 450, 90, 5003771>>,
      <<900, 0, -339, 1512, 13777051>>, <<900, 0, 0, 0, 10007543>>, <<900, 0, 0, 1800, 10007543>>,
      <<900, 0, 900, 0, 0>>, <<900, 0, -900, 0, 20015086>>, <<900, 0, -841, -1193, 19359036>>,
      <<900, 0, 841, 607, 656050>>, <<-900, 0, 419, 125, 14666610>>, <<-900, 0, 420, 125, 14677730>>,
      <<-900, 0, 419, 126, 14666610>>, <<-900, 0, 125, 419, 11397479>>, <<-900, 0, 419, 3725, 14666610>>,
      <<-900, 0, 450, 90, 15011315>>, <<-900, 0, -339, 1512, 6238035>>, <<-900, 0, 0, 0, 10007543>>,
      <<-900, 0, 0, 1800, 10007543>>, <<-900, 0, 900, 0, 20015086>>, <<-900, 0, -900, 0, 0>>,
      <<-900, 0, -841, -1193, 656050>>, <<-900, 0, 841, 607, 19359036>>, <<-841, -1193, 419, 125, 15085488>>,
      <<-841, -1193, 420, 125, 15096541>>, <<-841, -1193, 419, 126, 15086395>>, <<-841, -1193, 125, 419, 12017614>>,
      <<-841, -1193, 419, 3725, 15085488>>, <<-841, -1193, 450, 90, 15395252>>, <<-841, -1193, -339, 1512, 6254983>>,
      <<-841, -1193, 0, 0, 10328171>>, <<-841, -1193, 0, 1800, 9686915>>, <<-841, -1193, 900, 0, 19359036>>,
      <<-841, -1193, -900, 0, 656050>>, <<-841, -1193, -841, -1193, 0>>, <<841, 607, 419, 125, 4929597>>,
      <<841, 607, 420, 125, 4918545>>, <<841, 607, 419, 126, 4928690>>, <<841, 607, 125, 419, 7997471>>,
      <<841, 607, 419, 3725, 4929597>>, <<841, 607, 450, 90, 4619834>>, <<841, 607, -339, 1512, 13760103>>,
      <<841, 607, 0, 0, 9686915>>, <<841, 607, 0, 1800, 10328171>>, <<841, 607, 900, 0, 656050>>,
      <<841, 607, -900, 0, 19359036>>, <<841, 607, 841, 607, 0>>
    }

\* the pairs of points of the model for which the function raises
\* ValueError (math domain error): the points are antipodal and a comes out
\* above 1 in floating point, so math.sqrt(1 - a) has a negative argument
HaversineRaises ==
    { <<-841, -1193, 841, 607>>, <<841, 607, -841, -1193>> }

HaversineMetres(lat1, lon1, lat2, lon2) ==
    (CHOOSE e \in HaversineTable :
         e[1] = lat1 /\ e[2] = lon1 /\ e[3] = lat2 /\ e[4] = lon2)[5]

\* the outcome of a call that raises ValueError, in the place of the float
ValueError == [cls |-> "raise", v |-> 0]

\* None when an argument is None; NaN when an argument is NaN (math.radians,
\* sin, cos, sqrt and atan2 all pass a NaN on); no origin and place drawn
\* for query_nearby are antipodal
haversine_km(lat1, lon1, lat2, lon2) ==
    IF None \in {lat1, lon1, lat2, lon2} THEN None
    ELSE IF \E x \in {lat1, lon1, lat2, lon2} : Val(x).cls = "nan"
    THEN Some(NaN)
    ELSE IF <<Val(lat1).v, Val(lon1).v, Val(lat2).v, Val(lon2).v>>
                \in HaversineRaises
    THEN Some(ValueError)
    ELSE Some(Fin(HaversineMetres(Val(lat1).v, Val(lon1).v,
                                  Val(lat2).v, Val(lon2).v)))

\* the row's coordinates parsed but not normalized
PlaceCoordsParsedOnly(r) == <<_to_float(r.lat), _to_float(r.lon)>>

\* lat, lon = _normalize_coords(r["lat"], r["lon"])
PlaceCoords(r) == _normalize_coords(r.lat, r.lon)

\* the radius test with the boundary left out
InRadiusStrict(d, radius_km) ==
    ~IsNone(d) /\ FloatGt(radius_km, Val(d))

\* d is not None and d <= radius_km
InRadius(d, radius_km) == ~IsNone(d) /\ FloatLe(Val(d), radius_km)

\* the tail of the loop of query_nearby over the rows that passed the two
\* filter guards: the pairs (d, r), in scan order, of the rows with
\* coordinates and a distance within the radius
\* if d is not None and d <= radius_km: results.append((d, r))
Appended(r, d, radius_km) ==
    IF InRadius(d, radius_km) THEN <<[d |-> Val(d), r |-> r]>> ELSE <<>>

\* one row of the loop, c being its normalized coordinates: nothing when a
\* component is None, else the pair (d, r) when d is within the radius
Visited(r, c, lat_user, lon_user, radius_km) ==
    IF IsNone(c[1]) \/ IsNone(c[2]) THEN <<>>
    ELSE Appended(r,
                  haversine_km(Some(lat_user), Some(lon_user), c[1], c[2]),
                  radius_km)

RECURSIVE Within(_, _, _, _)
Within(rows, lat_user, lon_user, radius_km) ==
    IF rows = <<>> THEN <<>>
    ELSE Visited(Head(rows), PlaceCoords(Head(rows)),
                 lat_user, lon_user, radius_km)
             \o Within(Tail(rows), lat_user, lon_user, radius_km)

\* x put before the elements at the same distance
InsertBeforeEqual(sorted, x) ==
    LET before == SelectSeq(sorted, LAMBDA e : FloatGt(x.d, e.d))
        after == SelectSeq(sorted, LAMBDA e : ~FloatGt(x.d, e.d))
    IN  before \o <<x>> \o after

\* x put behind every element that is not farther than x
InsertByDistance(sorted, x) ==
    LET before == SelectSeq(sorted, LAMBDA e : ~FloatGt(e.d, x.d))
        after == SelectSeq(sorted, LAMBDA e : FloatGt(e.d, x.d))
    IN  before \o <<x>> \o after

\* results.sort(key=lambda x: x[0]): stable, ascending by distance
RECURSIVE SortByDistance(_)
SortByDistance(results) ==
    IF results = <<>> THEN <<>>
    ELSE InsertByDistance(
             SortByDistance(SubSeq(results, 1, Len(results) - 1)),
             results[Len(results)])

\* the list cut before it is sorted
TruncateThenSort(results, max_results) ==
    SortByDistance(Slice(results, 0, max_results))

\* results.sort(...); results[:max_results]
SortThenTruncate(results, max_results) ==
    Slice(SortByDistance(results), 0, max_results)

\* [x[1] for x in results]
RowsOf(results) == [i \in 1..Len(results) |-> results[i].r]

\* query_nearby from line 596 on, lat and lon being the parsed origin
NearbyFrom(user_id, lat, lon, radius_km, max_results) ==
    IF IsNone(lat) \/ IsNone(lon) THEN <<>>
    ELSE RowsOf(SortThenTruncate(
                    Within(NearbyCandidates(user_id), Val(lat), Val(lon),
                           radius_km),
                    max_results))

query_nearby(user_id, lat_user, lon_user, radius_km, max_results) ==
    NearbyFrom(user_id, _to_float(lat_user), _to_float(lon_user),
               radius_km, max_results)

-----------------------------------------------------------------------------
(* Direct applications of _normalize_coords: specification SpecCoords *)

\* numbers a caller can pass, in tenths of a degree: both sides of every
\* limit the function tests, the sample coordinates, and the special floats
RawNumbers ==
    {RawNum(Fin(n)) : n \in {0, 59, 60, 125, 190, 191, 359, 360, 419, 470,
                             471, 900, 901, 1800, 1801, 2000,
                             -125, -419, -900, -901, -1801}}
        \cup {RawNum(NaN), RawNum(Inf(1))}

\* texts a column or a caller can hold
RawTexts ==
    {RawText(s) : s \in {<<>>, <<" ">>,
                         <<"4", "1", ".", "9">>,
                         <<" ", "1", "2", ",", "5", " ">>,
                         <<"2", "0", "0">>,
                         <<"-", "9", "1">>,
                         <<"+", "1", "9">>,
                         <<".", "5">>,
                         <<"4", "7", ".">>,
                         <<"1", ",", "2", ",", "3">>,
                         <<"a">>,
                         <<"-">>,
                         <<"N", "a", "N">>,
                         <<"i", "n", "f">>}}

RawValues == {RawNone} \cup RawNumbers \cup RawTexts

InitCoords ==
    /\ restaurants = {}
    /\ user_settings = {}
    /\ user_data = [u \in Users |-> EmptyUserData]
    /\ messages = <<>>
    /\ store_changes = 0
    /\ call = NoCall
    /\ pending_photo_for_user = NoPending
    /\ photos = <<>>

\* one application per behaviour: the function is pure
NormalizeCoords ==
    \E lat_raw \in RawValues, lon_raw \in RawValues :
        /\ call.fn = "none"
        /\ call' = [fn |-> "_normalize_coords",
                    lat_raw |-> lat_raw, lon_raw |-> lon_raw,
                    lat |-> _to_float(lat_raw), lon |-> _to_float(lon_raw),
                    result |-> _normalize_coords(lat_raw, lon_raw)]
        /\ UNCHANGED <<restaurants, user_settings, user_data, messages,
                       store_changes,
                       pending_photo_for_user, photos>>

NextCoords == NormalizeCoords

SpecCoords == InitCoords /\ [][NextCoords]_vars

-----------------------------------------------------------------------------
(* Claims about _normalize_coords, under SpecCoords *)

IsNormalize == call.fn = "_normalize_coords"

\* both raw values of the recorded application parsed
BothParsed == ~IsNone(call.lat) /\ ~IsNone(call.lon)

\* |a| > 90 or |b| > 180, the claims' "out of range"
Beyond(a, b) ==
    FloatGt(FloatAbs(a), Fin(900)) \/ FloatGt(FloatAbs(b), Fin(1800))

\* a in [6, 19] and b in [36, 47]
InBand(a, b) ==
    /\ FloatLe(Fin(60), a) /\ FloatLe(a, Fin(190))
    /\ FloatLe(Fin(360), b) /\ FloatLe(b, Fin(470))

\* a is a latitude and b a longitude: |a| <= 90 and |b| <= 180
ValidPoint(a, b) ==
    FloatLe(FloatAbs(a), Fin(900)) /\ FloatLe(FloatAbs(b), Fin(1800))

\* C17: range repair.  When both raw values parse and the pair is out of
\* range, the values are swapped once and checked again: a swapped pair that
\* is in range is the result, a swapped pair still out of range gives
\* (None, None)
C17_RangeRepair ==
    (IsNormalize /\ BothParsed /\ Beyond(Val(call.lat), Val(call.lon))) =>
        IF Beyond(Val(call.lon), Val(call.lat))
        THEN call.result = <<None, None>>
        ELSE call.result = <<call.lon, call.lat>>

\* an out-of-range pair repaired by the swap
C17_Witness ==
    /\ IsNormalize /\ BothParsed
    /\ Beyond(Val(call.lat), Val(call.lon))
    /\ call.result = <<call.lon, call.lat>>
    /\ call.lat # call.lon

\* C18: heuristic swap.  With (a, b) the pair left by range repair and in
\* range, the result is (b, a) when a is in [6, 19] and b in [36, 47], and
\* (a, b) for every other pair
C18_HeuristicSwap ==
    (IsNormalize /\ BothParsed) =>
        LET lat == Val(call.lat)
            lon == Val(call.lon)
            a == IF Beyond(lat, lon) THEN lon ELSE lat
            b == IF Beyond(lat, lon) THEN lat ELSE lon
        IN  ~Beyond(a, b) =>
                IF InBand(a, b)
                THEN call.result = <<Some(b), Some(a)>>
                ELSE call.result = <<Some(a), Some(b)>>

\* the pair (12.5, 41.9), given as text with a decimal comma, returned as
\* (41.9, 12.5)
C18_Witness ==
    /\ IsNormalize
    /\ call.lat_raw.kind = "text"
    /\ call.lat = Some(Fin(125))
    /\ call.lon = Some(Fin(419))
    /\ call.result = <<Some(Fin(419)), Some(Fin(125))>>

\* C19 as stated: every valid point (lat in [-90, 90], lon in [-180, 180])
\* is returned unchanged
C19_Idempotent ==
    (IsNormalize /\ BothParsed /\ ValidPoint(Val(call.lat), Val(call.lon))) =>
        call.result = <<call.lat, call.lon>>

\* C19 amended: every valid point that does not have its latitude in
\* [6, 19] together with its longitude in [36, 47] is returned unchanged
C19_IdempotentOutsideBand ==
    (/\ IsNormalize /\ BothParsed
     /\ ValidPoint(Val(call.lat), Val(call.lon))
     /\ ~InBand(Val(call.lat), Val(call.lon))) =>
        call.result = <<call.lat, call.lon>>

\* the valid point (41.9, 12.5) returned as it is
C19_Witness ==
    /\ IsNormalize
    /\ call.lat = Some(Fin(419))
    /\ call.lon = Some(Fin(125))
    /\ call.result = <<call.lat, call.lon>>

\* C20: the result is (None, None) or a pair with |lat| <= 90 and
\* |lon| <= 180, never a pair with exactly one component absent, and
\* (None, None) whenever a raw value is missing, empty or unparseable
C20_ValidOrInvalid ==
    IsNormalize =>
        /\ \/ call.result = <<None, None>>
           \/ /\ ~IsNone(call.result[1])
              /\ ~IsNone(call.result[2])
              /\ ValidPoint(Val(call.result[1]), Val(call.result[2]))
        /\ IsNone(call.result[1]) <=> IsNone(call.result[2])
        /\ (IsNone(call.lat) \/ IsNone(call.lon)) =>
               call.result = <<None, None>>

-----------------------------------------------------------------------------
(* Direct applications of query_nearby: specification SpecNearby *)

t419 == <<"4", "1", ".", "9">>

t125 == <<"1", "2", ".", "5">>

\* rows with coordinates, as the TEXT columns lat and lon hold them: at the
\* origin (41.9, 12.5); the same point stored swapped; (42.0, 12.5) with a
\* decimal comma; (41.9, 12.6); and four rows without a usable position
\* (lat NULL, lon unparseable, out of range both ways, NaN)
NearbyPool ==
    << [name |-> <<"A">>, rating |-> Some(45), types |-> Some(bar),
        lat |-> RawText(t419), lon |-> RawText(t125)],
       [name |-> <<"B">>, rating |-> None,
        types |-> Some(<<"a", "|", "B", "a", "r">>),
        lat |-> RawText(t125), lon |-> RawText(t419)],
       [name |-> <<"A">>, rating |-> Some(42), types |-> Some(bar),
        lat |-> RawText(<<" ", "4", "2", ",", "0">>), lon |-> RawText(t125)],
       [name |-> <<"R">>, rating |-> Some(48), types |-> Some(<<>>),
        lat |-> RawText(t419), lon |-> RawText(<<"1", "2", ".", "6">>)],
       [name |-> <<"a">>, rating |-> Some(48), types |-> Some(bar),
        lat |-> RawNone, lon |-> RawText(t125)],
       [name |-> <<"b">>, rating |-> Some(45), types |-> Some(bar),
        lat |-> RawText(t419), lon |-> RawText(<<"a">>)],
       [name |-> <<"r">>, rating |-> None, types |-> None,
        lat |-> RawText(t419),
        lon |-> RawText(<<"3", "7", "2", ".", "5">>)],
       [name |-> <<"B">>, rating |-> Some(48), types |-> Some(bar),
        lat |-> RawText(<<"n", "a", "n">>), lon |-> RawText(t125)] >>

\* the table holding the pool rows picks[1], picks[2], ... under ids 1, 2, ...
NearbyStoreOf(picks) ==
    {[id |-> i,
      name |-> NearbyPool[picks[i]].name,
      city |-> Ra,
      rating |-> NearbyPool[picks[i]].rating,
      types |-> NearbyPool[picks[i]].types,
      lat |-> NearbyPool[picks[i]].lat,
      lon |-> NearbyPool[picks[i]].lon] : i \in DOMAIN picks}

\* up to MaxRows pool rows, inserted in pool order or in the opposite order
NearbyPicks ==
    {p \in UNION {[1..n -> DOMAIN NearbyPool] : n \in 0..MaxRows} :
        \/ \A i, j \in DOMAIN p : i < j => p[i] < p[j]
        \/ \A i, j \in DOMAIN p : i < j => p[i] > p[j]}

\* origins handed to query_nearby, as <<lat_user, lon_user>>: (41.9, 12.5)
\* as numbers and as text; no latitude; an unparseable latitude; a longitude
\* out of range; the two values swapped; a NaN
Origins ==
    { <<RawNum(Fin(419)), RawNum(Fin(125))>>,
      <<RawText(t419), RawText(<<" ", "1", "2", ",", "5">>)>>,
      <<RawNone, RawNum(Fin(125))>>,
      <<RawText(<<"a">>), RawNum(Fin(125))>>,
      <<RawNum(Fin(419)), RawNum(Fin(3725))>>,
      <<RawNum(Fin(125)), RawNum(Fin(419))>>,
      <<RawNum(NaN), RawNum(Fin(125))>> }

\* radii in metres: 5 km (the default of handle_location), the distance
\* from (41.9, 12.5) to (42.0, 12.5), and 20 km (the largest option)
Radii == {Fin(5000), Fin(11119), Fin(20000)}

\* max_results: small limits and the default
MaxResults == {1, 2, 200}

NearbySettings ==
    { <<Some(45), None>>, <<None, Some(bar)>>, <<Some(45), Some(bar)>> }

InitNearby ==
    /\ \E p \in NearbyPicks : restaurants = NearbyStoreOf(p)
    /\ \/ user_settings = {}
       \/ \E st \in NearbySettings :
             user_settings = {[user_id |-> 1, min_rating |-> st[1],
                               type_filter |-> st[2]]}
    /\ user_data = [u \in Users |-> EmptyUserData]
    /\ messages = <<>>
    /\ store_changes = 0
    /\ call = NoCall
    /\ pending_photo_for_user = NoPending
    /\ photos = <<>>

\* one application per behaviour: the function does not write
QueryNearby ==
    \E u \in Users, o \in Origins, radius_km \in Radii, n \in MaxResults :
        /\ call.fn = "none"
        /\ call' = [fn |-> "query_nearby",
                    user_id |-> u,
                    lat_user |-> o[1],
                    lon_user |-> o[2],
                    radius_km |-> radius_km,
                    max_results |-> n,
                    rows |-> query_nearby(u, o[1], o[2], radius_km, n)]
        /\ UNCHANGED <<restaurants, user_settings, user_data, messages,
                       store_changes,
                       pending_photo_for_user, photos>>

NextNearby == QueryNearby

SpecNearby == InitNearby /\ [][NextNearby]_vars

-----------------------------------------------------------------------------
(* Claims about query_nearby, under SpecNearby *)

\* the origin of the recorded application, parsed
OriginLat == _to_float(call.lat_user)

OriginLon == _to_float(call.lon_user)

OriginParsed == ~IsNone(OriginLat) /\ ~IsNone(OriginLon)

\* the origin is a point with |lat| <= 90 and |lon| <= 180
OriginValid ==
    OriginParsed /\ ValidPoint(Val(OriginLat), Val(OriginLon))

\* the row has coordinates after normalization
HasPosition(r) == _normalize_coords(r.lat, r.lon) # <<None, None>>

\* the distance of a row with coordinates from the parsed origin
DistOf(r) ==
    LET c == _normalize_coords(r.lat, r.lon)
    IN  Val(haversine_km(OriginLat, OriginLon, c[1], c[2]))

\* the rows of the store that pass the user's filters, have coordinates and
\* lie within the radius of the recorded application
Matches ==
    {r \in restaurants :
        /\ RatingRule(r, Settings(call.user_id).min_rating)
        /\ CategoryRule(r, Settings(call.user_id).type_filter)
        /\ HasPosition(r)
        /\ OriginParsed
        /\ FloatLe(DistOf(r), call.radius_km)}

\* C11: no row whose lat/lon normalize to (None, None) is in the result of
\* query_nearby, whatever the origin and the radius
C11_InvalidExcluded ==
    IsNearbyQuery =>
        \A i \in 1..Len(call.rows) :
            _normalize_coords(call.rows[i].lat, call.rows[i].lon)
                # <<None, None>>

\* a non-empty result from a store holding a row without coordinates that
\* passes the user's filters
C11_Witness ==
    /\ IsNearbyQuery
    /\ call.rows # <<>>
    /\ \E r \in restaurants :
           /\ ~HasPosition(r)
           /\ RatingRule(r, Settings(call.user_id).min_rating)
           /\ CategoryRule(r, Settings(call.user_id).type_filter)

\* C12: with a valid origin and no truncation, the result holds exactly the
\* rows that pass the filters, have coordinates and are at a distance
\* d <= radius: d = radius is in, d > radius is out
C12_RadiusInclusive ==
    (IsNearbyQuery /\ OriginValid
        /\ call.max_results >= Cardinality(restaurants)) =>
        {call.rows[i] : i \in 1..Len(call.rows)} = Matches

\* a returned row exactly at the radius, next to a closer one
C12_Witness ==
    /\ IsNearbyQuery /\ OriginValid
    /\ call.max_results >= Cardinality(restaurants)
    /\ \E i, j \in 1..Len(call.rows) :
           /\ DistOf(call.rows[i]) = call.radius_km
           /\ FloatGt(call.radius_km, DistOf(call.rows[j]))

\* C13: the result is in non-decreasing distance from the origin, and rows
\* at the same distance are in the order of the store (rowid)
C13_SortedStable ==
    IsNearbyQuery =>
        \A i, j \in 1..Len(call.rows) :
            i < j =>
                /\ ~FloatGt(DistOf(call.rows[i]), DistOf(call.rows[j]))
                /\ DistOf(call.rows[i]) = DistOf(call.rows[j]) =>
                       call.rows[i].id < call.rows[j].id

\* a result with two rows at the same distance and a row moved ahead of one
\* the store holds before it
C13_Witness ==
    /\ IsNearbyQuery
    /\ \E i, j \in 1..Len(call.rows) :
           i < j /\ DistOf(call.rows[i]) = DistOf(call.rows[j])
    /\ \E i, j \in 1..Len(call.rows) :
           i < j /\ call.rows[i].id > call.rows[j].id

\* C14: the result has min(max_results, number of matches) rows, all of
\* them matches, and no match left out is closer than a returned one
C14_ClosestKept ==
    IsNearbyQuery =>
        /\ Len(call.rows) <= call.max_results
        /\ Len(call.rows) = Min(call.max_results, Cardinality(Matches))
        /\ \A i \in 1..Len(call.rows) : call.rows[i] \in Matches
        /\ \A m \in Matches :
               m \notin {call.rows[i] : i \in 1..Len(call.rows)} =>
                   \A i \in 1..Len(call.rows) :
                       ~FloatGt(DistOf(call.rows[i]), DistOf(m))

\* more matches than max_results, and a match left out that the store
\* holds before a returned, closer one
C14_Witness ==
    /\ IsNearbyQuery
    /\ Cardinality(Matches) > call.max_results
    /\ \E m \in Matches :
           /\ m \notin {call.rows[i] : i \in 1..Len(call.rows)}
           /\ \E i \in 1..Len(call.rows) :
                  /\ m.id < call.rows[i].id
                  /\ FloatGt(DistOf(m), DistOf(call.rows[i]))

\* C15: the result is empty whenever the origin does not normalize to a
\* valid point: absent, unparseable, or out of range even after one swap
C15_InvalidOriginEmpty ==
    (IsNearbyQuery
        /\ _normalize_coords(call.lat_user, call.lon_user) = <<None, None>>)
        => call.rows = <<>>

\* the accept decision of query_nearby's two filter guards for one row
NearbyAccepts(r, settings) ==
    /\ ~NearbyRatingSkips(r, settings.min_rating)
    /\ Truthy(settings.type_filter) => TypeMatches(r, settings.type_filter)

\* the accept decision of query_by_city's two filters for one row
CityAccepts(r, settings) ==
    KeepType(KeepRating(<<r>>, settings.min_rating), settings.type_filter)
        = <<r>>

\* the rows within the radius first, query_by_city's filters applied to
\* them afterwards, then the sort and the cut
DistanceFirst ==
    IF ~OriginParsed THEN <<>>
    ELSE LET near == Within(SelectAll, Val(OriginLat), Val(OriginLon),
                            call.radius_km)
             kept == SelectSeq(near,
                         LAMBDA x : CityAccepts(x.r, Settings(call.user_id)))
             IN  RowsOf(SortThenTruncate(kept, call.max_results))

\* C16: query_nearby and query_by_city take the same accept/reject decision
\* on every row for the same settings, and filtering before the distance
\* test gives the same list as filtering the rows that passed it
C16_SameFilters ==
    IsNearbyQuery =>
        /\ \A r \in restaurants :
               NearbyAccepts(r, Settings(call.user_id))
                   <=> CityAccepts(r, Settings(call.user_id))
        /\ call.rows = DistanceFirst

\* both filters set, a row within the radius rejected by them and another
\* one returned
C16_Witness ==
    /\ IsNearbyQuery /\ OriginValid
    /\ ~IsNone(Settings(call.user_id).min_rating)
    /\ Truthy(Settings(call.user_id).type_filter)
    /\ call.rows # <<>>
    /\ \E r \in restaurants :
           /\ HasPosition(r)
           /\ FloatLe(DistOf(r), call.radius_km)
           /\ ~CityAccepts(r, Settings(call.user_id))

-----------------------------------------------------------------------------
(* Direct applications of haversine_km: specification SpecHaversine *)

\* valid points, as <<lat, lon>> in tenths of a degree: the places around
\* (41.9, 12.5), far cities, the poles, points on the equator 180 degrees
\* apart, and a pair of antipodal points
HaversinePoints ==
    { <<419, 125>>, <<420, 125>>, <<419, 126>>, <<125, 419>>, <<450, 90>>,
      <<-339, 1512>>, <<0, 0>>, <<0, 1800>>, <<900, 0>>, <<-900, 0>>,
      <<-841, -1193>>, <<841, 607>> }

InitHaversine ==
    /\ restaurants = {}
    /\ user_settings = {}
    /\ user_data = [u \in Users |-> EmptyUserData]
    /\ messages = <<>>
    /\ store_changes = 0
    /\ call = NoCall
    /\ pending_photo_for_user = NoPending
    /\ photos = <<>>

\* the function applied to a pair of points, in both orders
Haversine ==
    \E a \in HaversinePoints, b \in HaversinePoints :
        /\ call.fn = "none"
        /\ call' = [fn |-> "haversine_km",
                    a |-> a,
                    b |-> b,
                    ab |-> haversine_km(Some(Fin(a[1])), Some(Fin(a[2])),
                                        Some(Fin(b[1])), Some(Fin(b[2]))),
                    ba |-> haversine_km(Some(Fin(b[1])), Some(Fin(b[2])),
                                        Some(Fin(a[1])), Some(Fin(a[2])))]
        /\ UNCHANGED <<restaurants, user_settings, user_data, messages,
                       store_changes,
                       pending_photo_for_user, photos>>

NextHaversine == Haversine

SpecHaversine == InitHaversine /\ [][NextHaversine]_vars

\* C21: for two valid points haversine_km gives a number in either order,
\* the two numbers are equal, and the number is not negative
C21_SymmetricNonNegative ==
    call.fn = "haversine_km" =>
        /\ ~IsNone(call.ab) /\ ~IsNone(call.ba)
        /\ Val(call.ab).cls = "fin" /\ Val(call.ba).cls = "fin"
        /\ call.ab = call.ba
        /\ Val(call.ab).v >= 0

-----------------------------------------------------------------------------
(* Repeated searches: specification SpecRepeat *)

\* four places of one city: three share rating and name (a tie in the city
\* order), two of them lie on the same point (a tie in distance)
TieStore ==
    {[id |-> 1, name |-> <<"A">>, city |-> Ra, rating |-> Some(45),
      types |-> Some(bar), lat |-> RawText(t419), lon |-> RawText(t125)],
     [id |-> 2, name |-> <<"A">>, city |-> Ra, rating |-> Some(45),
      types |-> None, lat |-> RawText(t125), lon |-> RawText(t419)],
     [id |-> 3, name |-> <<"B">>, city |-> Ra, rating |-> None,
      types |-> Some(bar),
      lat |-> RawText(<<"4", "2", ".", "0">>), lon |-> RawText(t125)],
     [id |-> 4, name |-> <<"A">>, city |-> Ra, rating |-> Some(45),
      types |-> Some(bar),
      lat |-> RawText(t419), lon |-> RawText(<<"1", "2", ".", "6">>)]}

\* the searches evaluated: a city with places and one without; the origin
\* (41.9, 12.5) with the default and the largest radius
RepeatSearches ==
    {[fn |-> "query_by_city", city |-> c, lat_user |-> RawNone,
      lon_user |-> RawNone, radius_km |-> Fin(0)] : c \in {Ra, Rb}}
        \cup
    {[fn |-> "query_nearby", city |-> <<>>, lat_user |-> RawNum(Fin(419)),
      lon_user |-> RawNum(Fin(125)), radius_km |-> r]
         : r \in {Fin(5000), Fin(20000)}}

\* no evaluation yet
NoEval ==
    [search |-> [fn |-> "none", city |-> <<>>, lat_user |-> RawNone,
                 lon_user |-> RawNone, radius_km |-> Fin(0)],
     user_id |-> 0, store |-> {},
     settings |-> [min_rating |-> None, type_filter |-> None],
     rows |-> <<>>]

\* the search q evaluated for user u now, with what it read
Evaluated(q, u) ==
    [search |-> q,
     user_id |-> u,
     store |-> restaurants,
     settings |-> get_user_settings(u),
     rows |-> IF q.fn = "query_by_city" THEN query_by_city(q.city, u)
              ELSE query_nearby(u, q.lat_user, q.lon_user, q.radius_km, 200)]

InitRepeat ==
    /\ restaurants = TieStore
    /\ user_settings = {}
    /\ user_data = [u \in Users |-> EmptyUserData]
    /\ messages = <<>>
    /\ store_changes = 0
    /\ call = NoCall
    /\ pending_photo_for_user = NoPending
    /\ photos = <<>>

\* a search is evaluated; call keeps this evaluation and the one before
Search ==
    \E q \in RepeatSearches, u \in Users :
        /\ call' = [fn |-> "search",
                    cur |-> Evaluated(q, u),
                    prev |-> IF call.fn = "none" THEN NoEval ELSE call.cur]
        /\ UNCHANGED <<restaurants, user_settings, user_data, messages,
                       store_changes,
                       pending_photo_for_user, photos>>

NextRepeat ==
    \/ Search
    \/ \E u \in Users, value \in PickedRatings : CallbackFilt(u, value)
    \/ \E id \in UpdatedIds, rating \in WrittenRatings :
           StoreUpdateRating(id, rating)

SpecRepeat == InitRepeat /\ [][NextRepeat]_vars

-----------------------------------------------------------------------------
(* The filters menu: specification SpecFilters *)

\* two users
FilterUsers == {1, 2}

\* str.startswith
StartsWith(s, prefix) ==
    Len(s) >= Len(prefix) /\ SubSeq(s, 1, Len(prefix)) = prefix

tFilt == <<"f", "i", "l", "t", ":">>

tType == <<"t", "y", "p", "e", ":">>

tNone == <<"n", "o", "n", "e">>

tReset == <<"r", "e", "s", "e", "t", ":", "f", "i", "l", "t", "e", "r", "s">>

\* callback data of buttons of the filters menu built by handle_text
FilterButtons ==
    { tFilt \o <<"4", ".", "0">>, tFilt \o <<"4", ".", "5">>, tFilt \o tNone,
      tType \o bar, tType \o tNone, tReset }

\* float(val) of a 'filt:' button as a rating in tenths
RatingOf(val) == Some(Val(ParseFloat(val)).v)

\* data.split(":", 1)[1]
CallbackValue(data) == Split(data, ":")[2]

\* callback_handler, branch 'filt:'
FiltBranch(user_id, val) ==
    IF val = tNone THEN set_user_min_rating(user_id, None)
    ELSE set_user_min_rating(user_id, RatingOf(val))

\* callback_handler, branch 'type:'
TypeBranch(user_id, val) ==
    IF val = tNone THEN set_user_type_filter(user_id, None)
    ELSE set_user_type_filter(user_id, Some(val))

\* the table user_settings after callback_handler handled data for the
\* user: the branches 'filt:' and 'type:' write it, and no branch of the
\* handler matches any other data of the menu
SettingsAfterCallback(user_id, data) ==
    IF StartsWith(data, tFilt) THEN FiltBranch(user_id, CallbackValue(data))
    ELSE IF StartsWith(data, tType)
    THEN TypeBranch(user_id, CallbackValue(data))
    ELSE user_settings

InitFilters ==
    /\ restaurants = {}
    /\ user_settings = {}
    /\ user_data = [u \in Users |-> EmptyUserData]
    /\ messages = <<>>
    /\ store_changes = 0
    /\ call = NoCall
    /\ pending_photo_for_user = NoPending
    /\ photos = <<>>

\* a user presses a button of the filters menu; call keeps the press and
\* the table as it was before
CallbackFilters ==
    \E u \in FilterUsers, data \in FilterButtons :
        /\ user_settings' = SettingsAfterCallback(u, data)
        /\ call' = [fn |-> "callback_handler", user_id |-> u, data |-> data,
                    before |-> user_settings]
        /\ UNCHANGED <<restaurants, user_data, messages, store_changes,
                       pending_photo_for_user, photos>>

NextFilters == CallbackFilters

SpecFilters == InitFilters /\ [][NextFilters]_vars

\* the settings row of user u in table t, or the default of an unknown user
SettingsIn(t, u) ==
    IF \E row \in t : row.user_id = u
    THEN LET row == CHOOSE x \in t : x.user_id = u
         IN  [min_rating |-> row.min_rating, type_filter |-> row.type_filter]
    ELSE [min_rating |-> None, type_filter |-> None]

\* C24: when the last button a user pressed is 'reset:filters', that user
\* has no minimum rating and no category filter
C24_ResetClears ==
    (call.fn = "callback_handler" /\ call.data = tReset) =>
        /\ IsNone(get_user_settings(call.user_id).min_rating)
        /\ IsNone(get_user_settings(call.user_id).type_filter)

\* C25: a 'filt:' press leaves every user's type_filter as it was, a
\* 'type:' press leaves every user's min_rating as it was, a press changes
\* no other user's settings, and a user without a row has no constraint
C25_Independent ==
    /\ \A u \in FilterUsers :
           (~\E row \in user_settings : row.user_id = u) =>
               get_user_settings(u) = [min_rating |-> None, type_filter |-> None]
    /\ call.fn = "callback_handler" =>
           \A u \in FilterUsers :
               /\ StartsWith(call.data, tFilt) =>
                      get_user_settings(u).type_filter
                          = SettingsIn(call.before, u).type_filter
               /\ StartsWith(call.data, tType) =>
                      get_user_settings(u).min_rating
                          = SettingsIn(call.before, u).min_rating
               /\ u # call.user_id =>
                      get_user_settings(u) = SettingsIn(call.before, u)

\* a user with both filters set changes the rating threshold while the
\* other user has filters of their own
C25_Witness ==
    /\ call.fn = "callback_handler"
    /\ StartsWith(call.data, tFilt)
    /\ Truthy(SettingsIn(call.before, call.user_id).type_filter)
    /\ SettingsIn(call.before, call.user_id).min_rating
           # get_user_settings(call.user_id).min_rating
    /\ \E u \in FilterUsers :
           u # call.user_id /\ ~IsNone(get_user_settings(u).min_rating)

-----------------------------------------------------------------------------
(* The pages of one list, under SpecPage *)

\* the lines of page p of the list of the last application
PageLines(p) == build_list_message(call.rows, "Risultati", p).lines

RECURSIVE PagesFrom(_, _)
\* the lines of pages p .. total_pages - 1, one after the other
PagesFrom(p, total_pages) ==
    IF p >= total_pages THEN <<>>
    ELSE PageLines(p) \o PagesFrom(p + 1, total_pages)

\* C26: the pages 0 .. total_pages - 1 of a list, one after the other, are
\* the list itself, every page but the last holds exactly PAGE_SIZE items,
\* and the number displayed with an item is its 1-based position in the list
C26_PagesPartition ==
    IsBuild =>
        LET total_pages == call.out.total_pages
            all == PagesFrom(0, total_pages)
        IN  /\ Len(all) = Len(call.rows)
            /\ \A k \in 1..Len(all) :
                   /\ all[k].id = call.rows[k].id
                   /\ all[k].display_n = k
            /\ \A p \in 0..(total_pages - 2) : Len(PageLines(p)) = PAGE_SIZE
            /\ Len(PageLines(total_pages - 1)) <= PAGE_SIZE
            /\ call.rows # <<>> => Len(PageLines(total_pages - 1)) >= 1

\* the third page of a list of twelve: items 11 and 12
C26_Witness ==
    /\ IsBuild
    /\ Len(call.rows) = 12
    /\ call.out.page = 2
    /\ Len(call.out.lines) = 2
    /\ call.out.lines[1].display_n = 11
    /\ call.out.lines[2].id = call.rows[12].id

-----------------------------------------------------------------------------
(* A session of text messages, locations and page presses:                 *)
(* specification SpecSession                                               *)
(*                                                                         *)
(* A menu label is a text of one symbol, which no typed text contains.  A  *)
(* radius is a float in tenths of a kilometre (50 is 5.0 km).              *)

tCerca == <<"Cerca per citta">>

tVicino == <<"Vicino a me">>

tAnnulla == <<"Annulla">>

tkm == <<"k", "m">>

RECURSIVE Remove(_, _)
\* s.replace(sub, "") for a non-empty sub
Remove(s, sub) ==
    IF Len(s) < Len(sub) THEN s
    ELSE IF SubSeq(s, 1, Len(sub)) = sub
    THEN Remove(SubSeq(s, Len(sub) + 1, Len(s)), sub)
    ELSE <<Head(s)>> \o Remove(Tail(s), sub)

RADIUS_OPTIONS == <<1, 3, 5, 10, 15, 20>>

\* [float(x) for x in RADIUS_OPTIONS]
RadiusFloats == {Fin(10 * RADIUS_OPTIONS[i]) : i \in DOMAIN RADIUS_OPTIONS}

\* the fallback 5.0
DefaultRadius == Fin(50)

\* float(s), or 5.0 when float raises
FloatOrDefault(s) ==
    IF s = <<>> \/ IsNone(ParseFloat(s)) THEN DefaultRadius ELSE Val(ParseFloat(s))

\* try: radius = float(text.lower().replace("km", "").replace(" ", "").strip())
\* except Exception: radius = 5.0
RadiusTyped(text) ==
    FloatOrDefault(Strip(Remove(Remove(Lower(text), tkm), <<" ">>)))

\* the radius kept as typed
RadiusAsTyped(radius) == radius

\* if radius not in [float(x) for x in RADIUS_OPTIONS]: radius = 5.0
RadiusOrDefault(radius) ==
    IF radius \notin RadiusFloats THEN DefaultRadius ELSE radius

\* handle_text, text == "📍 Vicino a me", reached when the text is not the
\* city label and the user is not awaiting a city
TextVicino(u) ==
    /\ ~user_data[u].awaiting_city
    /\ user_data' = [user_data EXCEPT ![u].awaiting_radius = TRUE]
    /\ UNCHANGED <<restaurants, user_settings, messages, store_changes, call,
                   pending_photo_for_user, photos>>

\* the user's data after the branch 'awaiting_radius' handled text
AfterRadiusText(ud, text) ==
    IF text = tAnnulla THEN [ud EXCEPT !.awaiting_radius = FALSE]
    ELSE IF Contains(Lower(text), tkm)
    THEN [ud EXCEPT !.nearby_radius_km = Some(RadiusOrDefault(RadiusTyped(text))),
                    !.awaiting_radius = FALSE]
    ELSE ud

\* handle_text while awaiting_radius, reached when the text is neither of
\* the two labels tested before and the user is not awaiting a city; call
\* keeps the text
TextRadius(u, text) ==
    /\ text \notin {tCerca, tVicino}
    /\ ~user_data[u].awaiting_city
    /\ user_data[u].awaiting_radius
    /\ user_data' = [user_data EXCEPT ![u] = AfterRadiusText(user_data[u], text)]
    /\ call' = [fn |-> "handle_text", user_id |-> u, text |-> text, found |-> 0,
                radius |-> DefaultRadius]
    /\ UNCHANGED <<restaurants, user_settings, messages, store_changes,
                   pending_photo_for_user, photos>>

\* float(context.user_data.get("nearby_radius_km") or 5.0)
LocationRadius(ud) ==
    IF IsNone(ud.nearby_radius_km) \/ Val(ud.nearby_radius_km) = Fin(0)
    THEN DefaultRadius
    ELSE Val(ud.nearby_radius_km)

\* a radius in the unit of the distances, metres
Metres(radius) == Fin(radius.v * 100)

\* the title of a radius list: radius, number found, active filters
NearbyTitle(rows, radius, u) ==
    [kind |-> "nearby",
     found |-> Len(rows),
     radius |-> radius,
     filtri |-> format_active_filters(get_user_settings(u))]

\* the table with every usable position stored back as normalized
StoreRepaired(store) ==
    {IF IsNone(PlaceCoords(r)[1]) \/ IsNone(PlaceCoords(r)[2]) THEN r
     ELSE [r EXCEPT !.lat = RawNum(Val(PlaceCoords(r)[1])),
                    !.lon = RawNum(Val(PlaceCoords(r)[2]))] : r \in store}

\* the table restaurants after query_nearby ran on it: the function issues
\* one SELECT and closes the connection
StoreAfterNearby(store) == store

\* handle_location after the query returned rows for the radius
Located(u, lat, lon, radius, rows) ==
    /\ IF rows = <<>>
       THEN /\ user_data' = user_data
            /\ messages' = ForgetSeen(messages)
       ELSE /\ Len(messages) < MaxMsgs
            /\ user_data' =
                   [user_data EXCEPT ![u] =
                       [@ EXCEPT
                           !.last_nearby_coords =
                               Some(<<_to_float(lat), _to_float(lon)>>),
                           !.last_list_rows_ids = Some(Ids(rows)),
                           !.last_list_title = Some(NearbyTitle(rows, radius, u)),
                           !.last_list_type = Some("nearby")]]
            /\ messages' =
                   Append(ForgetSeen(messages),
                          SentMessage(u,
                                      build_list_message(
                                          rows, NearbyTitle(rows, radius, u), 0),
                                      rows))
    /\ call' = [fn |-> "handle_location", user_id |-> u, text |-> <<>>,
                found |-> Len(rows), radius |-> radius]
    /\ restaurants' = StoreAfterNearby(restaurants)
    /\ UNCHANGED <<user_settings, store_changes,
                   pending_photo_for_user, photos>>

\* handle_location: the user sends the position (lat, lon)
HandleLocation(u, lat, lon) ==
    Located(u, lat, lon, LocationRadius(user_data[u]),
            query_nearby(u, lat, lon, Metres(LocationRadius(user_data[u])), 200))

\* seven places of one city: those of TieStore and three more at
\* (41.9, 12.5), so that a list can take two pages
SessionStore ==
    TieStore \cup
    {[id |-> i, name |-> <<"R">>, city |-> Ra, rating |-> Some(40),
      types |-> None, lat |-> RawText(t419), lon |-> RawText(t125)]
        : i \in 5..7}

\* what a user types at the city prompt: a city with places
CityTexts == {Ra}

\* what a user sends at the radius prompt: the cancel label, a radius of the
\* menu, a radius that is no option
RadiusTexts == {tAnnulla, <<"2", "0", " ", "k", "m">>, <<"7", " ", "K", "M">>}

\* the position a user sends, as Telegram gives it: two floats
SessionOrigins == { <<RawNum(Fin(419)), RawNum(Fin(125))>> }

InitSession ==
    /\ restaurants = SessionStore
    /\ user_settings = {}
    /\ user_data = [u \in Users |-> EmptyUserData]
    /\ messages = <<>>
    /\ store_changes = 0
    /\ call = NoCall
    /\ pending_photo_for_user = NoPending
    /\ photos = <<>>

NextSession ==
    \/ \E u \in Users : TextCercaCitta(u)
    \/ \E u \in Users, text \in CityTexts : TextCity(u, text)
    \/ \E u \in Users : TextVicino(u)
    \/ \E u \in Users, text \in RadiusTexts : TextRadius(u, text)
    \/ \E u \in Users, o \in SessionOrigins : HandleLocation(u, o[1], o[2])
    \/ \E u \in Users, k \in 1..MaxMsgs, page \in PageTargets :
           CallbackListpage(u, k, page)

SpecSession == InitSession /\ [][NextSession]_vars

\* C23: no step of the engine (city search, radius search, rendering of a
\* page, a 'listpage:' press) changes the table restaurants
C23_StoreUntouched == [][restaurants' = restaurants]_vars

\* after a city search, a radius search and a press that came back to a
\* page shown before, the table is the initial one
C23_Witness ==
    /\ restaurants = SessionStore
    /\ call.fn = "handle_location" /\ call.found > 0
    /\ \E u \in Users : ~IsNone(user_data[u].last_city_search)
    /\ \E k \in 1..Len(messages) : messages[k].page = 1

\* C27: a user is never awaiting a city and a radius at once
C27_OneFlag ==
    \A u \in Users :
        ~(user_data[u].awaiting_city /\ user_data[u].awaiting_radius)

\* texts with 'km' a user can type at the radius prompt: options of the menu
\* in several spellings, values that are no option, texts float() rejects
TypedRadii ==
    { <<"1", "k", "m">>, <<"1", "5", " ", "K", "m">>, <<"0", "5", ".", "0", "k", "m">>,
      <<"1", "k", "m", "5">>, <<"1", ".", "5", " ", "k", "m">>,
      <<"-", "5", " ", "k", "m">>, <<"2", "5", " ", "k", "m">>,
      <<"n", "a", "n", " ", "k", "m">>, <<"i", "n", "f", "k", "m">>,
      <<"k", "m">>, <<"a", " ", "k", "m">>, <<"5", " ", "k", "m", " ", "k", "m">> }

\* C28: a stored nearby_radius_km is one of RADIUS_OPTIONS, the radius a
\* location search ran with is one of RADIUS_OPTIONS, and it is 5 when no
\* radius is stored; whatever is typed with 'km', the radius kept for it is
\* one of RADIUS_OPTIONS
C28_RadiusAllowed ==
    /\ \A text \in TypedRadii :
           RadiusOrDefault(RadiusTyped(text)) \in RadiusFloats
    /\ \A u \in Users :
           ~IsNone(user_data[u].nearby_radius_km) =>
               Val(user_data[u].nearby_radius_km) \in RadiusFloats
    /\ call.fn = "handle_location" =>
           /\ call.radius \in RadiusFloats
           /\ IsNone(user_data[call.user_id].nearby_radius_km) =>
                  call.radius = DefaultRadius

\* '7 KM' typed at the radius prompt: 5.0 is stored
C28_Witness ==
    /\ call.fn = "handle_text"
    /\ call.text = <<"7", " ", "K", "M">>
    /\ user_data[call.user_id].nearby_radius_km = Some(DefaultRadius)
    /\ ~user_data[call.user_id].awaiting_radius

-----------------------------------------------------------------------------
(* Photos: specification SpecPhoto                                         *)
(*                                                                         *)
(* The dict pending_photo_for_user is a function on the users: None for a  *)
(* user without an entry.  A handler runs to its end before the next       *)
(* update is handled, and neither handler awaits between reading and       *)
(* writing the dict.                                                       *)

\* the places a 'photo:<rid>' button can name
PhotoRids == {1, 2}

\* one entry for all the users
PendingShared(pending, user_id, rid) == [u \in DOMAIN pending |-> Some(rid)]

\* pending_photo_for_user[user.id] = rid
PendingSet(pending, user_id, rid) == [pending EXCEPT ![user_id] = Some(rid)]

\* pending_photo_for_user.pop(user.id), the dict that is left
PendingPopped(pending, user_id) == [pending EXCEPT ![user_id] = None]

\* INSERT INTO photos (restaurant_id, file_id, user_id, created_at)
add_photo_record(user_id, restaurant_id, file_id) ==
    Append(photos, [restaurant_id |-> restaurant_id, file_id |-> file_id,
                    user_id |-> user_id])

\* history: for each user, the place of the user's most recent press since
\* the user's last stored photo
Pressed == IF call.fn = "none" THEN NoPending ELSE call.pressed

\* history: the photo messages handled so far
Handled == IF call.fn = "none" THEN 0 ELSE call.handled

InitPhoto ==
    /\ restaurants = {}
    /\ user_settings = {}
    /\ user_data = [u \in Users |-> EmptyUserData]
    /\ messages = <<>>
    /\ store_changes = 0
    /\ call = NoCall
    /\ pending_photo_for_user = NoPending
    /\ photos = <<>>

\* callback_handler, data 'photo:<rid>'
CallbackPhoto(u, rid) ==
    /\ pending_photo_for_user' = PendingSet(pending_photo_for_user, u, rid)
    /\ call' = [fn |-> "callback_handler", user_id |-> u, file_id |-> 0,
                pressed |-> [Pressed EXCEPT ![u] = Some(rid)],
                was_pressed |-> Pressed,
                was_pending |-> pending_photo_for_user,
                was_stored |-> Len(photos),
                handled |-> Handled]
    /\ UNCHANGED <<restaurants, user_settings, user_data, messages, store_changes,
                   photos>>

\* handle_photo: the user sends a photo, whose file id is file_id
HandlePhoto(u, file_id) ==
    /\ Handled < MaxPhotos
    /\ IF IsNone(pending_photo_for_user[u])
       THEN UNCHANGED <<pending_photo_for_user, photos>>
       ELSE /\ pending_photo_for_user' = PendingPopped(pending_photo_for_user, u)
            /\ photos' = add_photo_record(u, Val(pending_photo_for_user[u]), file_id)
    /\ call' = [fn |-> "handle_photo", user_id |-> u, file_id |-> file_id,
                pressed |-> [Pressed EXCEPT ![u] = None],
                was_pressed |-> Pressed,
                was_pending |-> pending_photo_for_user,
                was_stored |-> Len(photos),
                handled |-> Handled + 1]
    /\ UNCHANGED <<restaurants, user_settings, user_data, messages, store_changes>>

NextPhoto ==
    \/ \E u \in PhotoUsers, rid \in PhotoRids : CallbackPhoto(u, rid)
    \/ \E u \in PhotoUsers : HandlePhoto(u, Handled + 1)

SpecPhoto == InitPhoto /\ [][NextPhoto]_vars

\* C29: a user's pending entry is the place of that user's own most recent
\* press since the user's last stored photo, whatever the other users did;
\* a photo is stored exactly when its sender had such a press, for the place
\* of that press and under the sender's id; a photo without one stores
\* nothing; and a press or a photo leaves the entries of the other users as
\* they were
C29_PendingIsolated ==
    call.fn # "none" =>
        /\ \A u \in PhotoUsers : pending_photo_for_user[u] = call.pressed[u]
        /\ \A u \in PhotoUsers :
               u # call.user_id => pending_photo_for_user[u] = call.was_pending[u]
        /\ call.fn = "callback_handler" => Len(photos) = call.was_stored
        /\ call.fn = "handle_photo" =>
               IF IsNone(call.was_pressed[call.user_id])
               THEN Len(photos) = call.was_stored
               ELSE /\ Len(photos) = call.was_stored + 1
                    /\ photos[Len(photos)] =
                           [restaurant_id |-> Val(call.was_pressed[call.user_id]),
                            file_id |-> call.file_id,
                            user_id |-> call.user_id]
                    /\ IsNone(pending_photo_for_user[call.user_id])

\* user 1's photo is stored for the place of user 1's second press while
\* user 2, who pressed in between for another place, is still pending
C29_Witness ==
    /\ call.fn = "handle_photo"
    /\ call.user_id = 1
    /\ call.was_pressed[1] = Some(2)
    /\ call.was_pressed[2] = Some(1)
    /\ Len(photos) = 1
    /\ photos[1].restaurant_id = 2
    /\ pending_photo_for_user[2] = Some(1)
    /\ IsNone(pending_photo_for_user[1])

-----------------------------------------------------------------------------
(* The import of the application's places at startup                        *)
(* (src/import_app_restaurants.py): specification SpecImport                *)
(*                                                                         *)
(* A row of restaurants here carries its source, 'app' or 'user'.  The CSV  *)
(* file is a record: whether it can be opened, the column names of its     *)
(* header (None when the file has no header row) and its data rows.        *)

ImportPool ==
    {[id |-> 1, name |-> <<"A">>, city |-> Ra, source |-> "app"],
     [id |-> 2, name |-> <<"B">>, city |-> Ra, source |-> "user"],
     [id |-> 3, name |-> <<"R">>, city |-> Rb, source |-> "app"],
     [id |-> 4, name |-> <<"a">>, city |-> Rb, source |-> "user"],
     [id |-> 5, name |-> <<"b">>, city |-> Ra, source |-> "app"]}

\* required = {"name", "city", "address", "notes"}
Required == {"name", "city", "address", "notes"}

CsvRows ==
    << [name |-> <<"A", "b">>, city |-> <<" ", "R", "a">>],
       [name |-> <<" ">>, city |-> Rb],
       [name |-> <<"B">>, city |-> Rb] >>

\* files found at startup: none; an empty one; one without the column
\* notes; one with the header alone; two with rows, one row without a name
CsvFiles ==
    { [exists |-> FALSE, fieldnames |-> None, rows |-> <<>>],
      [exists |-> TRUE, fieldnames |-> None, rows |-> <<>>],
      [exists |-> TRUE, fieldnames |-> Some({"name", "city", "address"}),
       rows |-> SubSeq(CsvRows, 1, 1)],
      [exists |-> TRUE, fieldnames |-> Some(Required), rows |-> <<>>],
      [exists |-> TRUE, fieldnames |-> Some(Required \cup {"lat", "lon"}),
       rows |-> SubSeq(CsvRows, 1, 1)],
      [exists |-> TRUE, fieldnames |-> Some(Required), rows |-> CsvRows] }

\* open() raises, or one of the two ValueErrors is raised
ImportRaises(csv) ==
    \/ ~csv.exists
    \/ IsNone(csv.fieldnames)
    \/ ~(Required \subseteq Val(csv.fieldnames))

\* DELETE FROM restaurants WHERE source = 'app', committed
AppRowsDeleted(store) == {r \in store : r.source # "app"}

\* the rows of the file that are not skipped: name and city not blank
CsvKept(rows) ==
    SelectSeq(rows, LAMBDA r : Strip(r.name) # <<>> /\ Strip(r.city) # <<>>)

\* the largest id given so far (AUTOINCREMENT never reuses one)
LastId(store) ==
    CHOOSE n \in {r.id : r \in store \cup ImportPool} :
        \A r \in store \cup ImportPool : r.id <= n

\* the INSERTs of the loop, for the rows kept, with ids after last
AppRowsInserted(kept, last) ==
    {[id |-> last + k, name |-> Strip(kept[k].name), city |-> Strip(kept[k].city),
      source |-> "app"] : k \in 1..Len(kept)}

\* the table after import_app_restaurants returned or raised: the DELETE is
\* committed before the file is opened, the INSERTs are committed at the end
ImportedStore(store, csv) ==
    IF ImportRaises(csv) THEN AppRowsDeleted(store)
    ELSE AppRowsDeleted(store)
             \cup AppRowsInserted(CsvKept(csv.rows), LastId(store))

InitImport ==
    /\ restaurants \in SUBSET ImportPool
    /\ user_settings = {}
    /\ user_data = [u \in Users |-> EmptyUserData]
    /\ messages = <<>>
    /\ store_changes = 0
    /\ call = NoCall
    /\ pending_photo_for_user = NoPending
    /\ photos = <<>>

\* lifespan / __main__: import_app_restaurants() inside try ... except, with
\* the file csv in place; call keeps the file, the outcome and the table as
\* it was before
ImportAppRestaurants ==
    \E csv \in CsvFiles :
        /\ store_changes < MaxStoreChanges
        /\ restaurants' = ImportedStore(restaurants, csv)
        /\ store_changes' = store_changes + 1
        /\ call' = [fn |-> "import_app_restaurants", csv |-> csv,
                    raised |-> ImportRaises(csv), before |-> restaurants]
        /\ UNCHANGED <<user_settings, user_data, messages,
                       pending_photo_for_user, photos>>

NextImport == ImportAppRestaurants

SpecImport == InitImport /\ [][NextImport]_vars

\* C30: after an import that raised, the table restaurants is as it was
\* before the call; after one that returned, the rows of another source are
\* as before and the rows of source 'app' are those just inserted
C30_FailureLeavesTable ==
    call.fn = "import_app_restaurants" =>
        /\ call.raised => restaurants = call.before
        /\ ~call.raised =>
               /\ AppRowsDeleted(restaurants) = AppRowsDeleted(call.before)
               /\ restaurants \ AppRowsDeleted(restaurants)
                      = AppRowsInserted(CsvKept(call.csv.rows), LastId(call.before))

====
